---- MODULE Spec2Model ----
(***************************************************************************)
(* Sweep-line intersection engine of rcgal                                 *)
(* (src/algorithm/intersection/sweep_segment_2_intersection.rs).           *)
(*                                                                         *)
(* The engine SweepSegment2Intersection is modelled as a state machine:    *)
(* push_segment appends to the two segment lists, intersection() is split  *)
(* into its initialisation, one step per iteration of the event loop and   *)
(* its return (index traversal + filter).  Numbers are exact: rationals    *)
(* <<numerator, denominator>> and square roots over them.  The status      *)
(* tree is an AVL tree with its shape; the other collaborators the driver  *)
(* calls (Point2, PriorityQueue, the containment and pairwise intersection *)
(* oracles) are modelled by their contracts.                               *)
(***************************************************************************)
EXTENDS Integers, Sequences, FiniteSets, TLC

\* ------------------------------------------------------------------------
\* Bounds of the model
\* ------------------------------------------------------------------------
\* Most segments pushed into one engine, drawn from the whole pool.
MaxSegments == 3
\* Most segments pushed into one engine when only lines are pushed.
MaxLineSegments == 5
\* Most calls of intersection() on one engine.
MaxRuns == 2
\* A call of intersection() after the first one is explored on engines
\* holding at most this many segments.
MaxRerunSegments == 3

\* ------------------------------------------------------------------------
\* Evaluation: an operator receives its arguments unevaluated, and a name
\* that is used twice is computed twice.  The({e : x \in {v}}) is e with x
\* bound to the value of v, computed once; the operators below bind their
\* arguments in this way (a Rust function receives values).
\* ------------------------------------------------------------------------
The(S) == CHOOSE r \in S : TRUE

\* ------------------------------------------------------------------------
\* NumberType: exact arithmetic on the numbers the sweep computes.  A
\* rational is <<n, d>> with d > 0 and gcd(n, d) = 1.  The square root of a
\* number s that is not a square is kept as a root: <<p, q, s>> is the
\* number p + q sqrt(s), with q /= 0 and p, q, s numbers themselves, so
\* that 2 sqrt(6) is <<<<0, 1>>, <<2, 1>>, <<6, 1>>>>.  The radicand of the
\* root of a rational is a squarefree integer: the numbers p + q sqrt(k)
\* with rational p and q have one form each.  Equality and order are those
\* of the real numbers, decided by signs; the tolerance of the
\* floating-point comparison is not modelled.  nan is what sqrt gives for
\* a negative number: arithmetic with nan gives nan and every comparison
\* with nan is false.  Numerators and denominators are 32-bit integers: a
\* product beyond them ends the evaluation with an error, it never yields
\* a wrong number.
\* ------------------------------------------------------------------------
Abs(a_) == The({ IF a < 0 THEN -a ELSE a : a \in {a_} })

RECURSIVE GCD(_, _)
GCD(a_, b_) ==
    The({ IF b = 0 THEN a ELSE GCD(b, a % b) : a \in {a_}, b \in {b_} })

Rat(n_, d_) ==
    The({ IF n = 0 /\ d = 0 THEN <<0, 0>>
          ELSE The({ <<(s * n) \div g, (s * d) \div g>> :
                     g \in {GCD(Abs(n), Abs(d))},
                     s \in {IF d < 0 THEN -1 ELSE 1} }) :
          n \in {n_}, d \in {d_} })

from_int(i) == <<i, 1>>
zero == <<0, 1>>
half == <<1, 2>>
nan == <<0, 0>>

\* p + q sqrt(s): the number p when q is zero.
Root(p_, q_, s) == The({ IF q = zero THEN p_ ELSE <<p_, q, s>> : q \in {q_} })

\* The depth of the roots of a number.
RECURSIVE rank(_)
rank(a) == IF Len(a) = 2 THEN 0 ELSE 1 + rank(a[3])

\* Two numbers, not both rational, are written over the radicand of the
\* deeper one: a number p + q sqrt(s) has the parts p and q, any other
\* number a the parts a and 0.
radicand(a, b) == IF rank(a) >= rank(b) THEN a[3] ELSE b[3]
is_over(a, s) == Len(a) = 3 /\ a[3] = s

Sign(i) == IF i > 0 THEN 1 ELSE IF i < 0 THEN -1 ELSE 0

\* Arithmetic, recursive in the depth of the roots: op is "add", "sub",
\* "mul" or "div", "sign" for the sign of a (-1, 0 or 1, and 2 for nan; b
\* is zero) and "cmp" for the sign of a - b.  For a = p + q sqrt(s), b = u + v sqrt(s),
\*   a b = p u + q v s + (p v + q u) sqrt(s),
\*   a / b = a (u - v sqrt(s)) / (u u - v v s),
\* and the sign of a is the common sign of p and q, else the sign of p when
\* p p > q q s and the sign of q when not.
RECURSIVE num(_, _, _)
num(op, a_, b_) ==
    The({ IF op = "cmp" THEN num("sign", num("sub", a, b), zero)
          ELSE IF a = nan \/ b = nan THEN IF op = "sign" THEN 2 ELSE nan
          ELSE IF Len(a) + Len(b) = 4
          THEN IF op = "sign" THEN Sign(a[1])
               ELSE Rat(CASE op = "add" -> a[1] * b[2] + b[1] * a[2]
                          [] op = "sub" -> a[1] * b[2] - b[1] * a[2]
                          [] op = "mul" -> a[1] * b[1]
                          [] op = "div" -> a[1] * b[2],
                        IF op = "div" THEN a[2] * b[1] ELSE a[2] * b[2])
          ELSE The({ The({
                   CASE op \in {"add", "sub"} -> Root(num(op, p, u), num(op, q, v), s)
                     [] op = "mul" ->
                          Root(num("add", num("mul", p, u), num("mul", num("mul", q, v), s)),
                               num("add", num("mul", p, v), num("mul", q, u)), s)
                     [] op = "div" ->
                          The({ num("mul", a, Root(num("div", u, n),
                                                   num("div", num("sub", zero, v), n), s)) :
                                n \in {num("sub", num("mul", u, u),
                                           num("mul", num("mul", v, v), s))} })
                     [] op = "sign" ->
                          The({ IF sq = 0 \/ sp = sq THEN sp
                                ELSE IF sp = 0 THEN sq
                                ELSE sp * num("sign",
                                              num("sub", num("mul", p, p),
                                                  num("mul", num("mul", q, q), s)), zero) :
                                sp \in {num("sign", p, zero)},
                                sq \in {num("sign", q, zero)} }) :
                   p \in {IF is_over(a, s) THEN a[1] ELSE a},
                   q \in {IF is_over(a, s) THEN a[2] ELSE zero},
                   u \in {IF is_over(b, s) THEN b[1] ELSE b},
                   v \in {IF is_over(b, s) THEN b[2] ELSE zero} }) :
                s \in {radicand(a, b)} }) :
          a \in {a_}, b \in {b_} })

num_add(a_, b_) ==
    The({ IF Len(a) + Len(b) = 4 THEN Rat(a[1] * b[2] + b[1] * a[2], a[2] * b[2])
          ELSE num("add", a, b) :
          a \in {a_}, b \in {b_} })
num_sub(a_, b_) ==
    The({ IF Len(a) + Len(b) = 4 THEN Rat(a[1] * b[2] - b[1] * a[2], a[2] * b[2])
          ELSE num("sub", a, b) :
          a \in {a_}, b \in {b_} })
num_mul(a_, b_) ==
    The({ IF Len(a) + Len(b) = 4 THEN Rat(a[1] * b[1], a[2] * b[2])
          ELSE num("mul", a, b) :
          a \in {a_}, b \in {b_} })
num_div(a_, b_) ==
    The({ IF Len(a) + Len(b) = 4 THEN Rat(a[1] * b[2], a[2] * b[1])
          ELSE num("div", a, b) :
          a \in {a_}, b \in {b_} })
num_lt(a_, b_) ==
    \E a \in {a_}, b \in {b_} :
        IF Len(a) + Len(b) = 4 THEN a[1] * b[2] < b[1] * a[2]
        ELSE num("cmp", a, b) < 0
num_gt(a, b) == num_lt(b, a)
num_equals(a_, b_) ==
    \E a \in {a_}, b \in {b_} :
        IF Len(a) + Len(b) = 4
        THEN a[2] /= 0 /\ b[2] /= 0 /\ a[1] * b[2] = b[1] * a[2]
        ELSE num("cmp", a, b) = 0

\* Integer square root, rounded down, by bisection of lo..hi.
RECURSIVE isqrt_between(_, _, _)
isqrt_between(n_, lo_, hi_) ==
    The({ IF lo >= hi THEN lo
          ELSE The({ IF mid * mid <= n THEN isqrt_between(n, mid, hi)
                     ELSE isqrt_between(n, lo, mid - 1) :
                     mid \in {(lo + hi + 1) \div 2} }) :
          n \in {n_}, lo \in {lo_}, hi \in {hi_} })
isqrt(n_) ==
    The({ isqrt_between(n, 0, IF n < 46340 THEN n ELSE 46340) : n \in {n_} })

\* The greatest r with r * r a divisor of m, m > 0.
square_divisor(m_) ==
    The({ r - (CHOOSE u \in 0..(r - 1) :
                   /\ m % ((r - u) * (r - u)) = 0
                   /\ \A v \in 0..(u - 1) : m % ((r - v) * (r - v)) /= 0) :
          m \in {m_}, r \in {isqrt(m_)} })

\* sqrt: nan for a negative number and for nan.  The root of a rational
\* n / d is sqrt(n d) / d, that is (r / d) sqrt(k) with n d = r^2 k and k
\* squarefree: a rational when k = 1.  The root of any other positive
\* number s is the number 0 + 1 sqrt(s).
num_sqrt(a_) ==
    The({ IF Len(a) = 3
          THEN The({ IF sign < 0 THEN nan
                     ELSE IF sign = 0 THEN zero
                     ELSE <<zero, from_int(1), a>> :
                     sign \in {num("sign", a, zero)} })
          ELSE IF a[1] < 0 \/ a[2] = 0 THEN nan
          ELSE IF a[1] = 0 THEN zero
          ELSE The({ The({ IF r * r = m THEN Rat(r, a[2])
                           ELSE <<zero, Rat(r, a[2]), from_int(m \div (r * r))>> :
                           r \in {square_divisor(m)} }) :
                     m \in {a[1] * a[2]} }) :
          a \in {a_} })

\* Radians are counted in units of pi: pi is 1 and a whole turn is 2.
pi == <<1, 1>>

\* ------------------------------------------------------------------------
\* Point2: a point is [x, y]; None / Some for Option values.
\* ------------------------------------------------------------------------
None == <<>>
Some(v) == <<v>>
is_some(o) == o /= <<>>
unwrap(o) == o[1]

Point2(x, y) == [x |-> x, y |-> y]
Pt(i, j) == Point2(from_int(i), from_int(j))

Point2_equals(a_, b_) ==
    \E a \in {a_}, b \in {b_} : num_equals(a.x, b.x) /\ num_equals(a.y, b.y)

\* The order of Point2 as the driver uses it: the greater point is the one
\* the sweep meets first (smaller x, then smaller y).  The event queue pops
\* its greatest element and a line's source is its greater endpoint.
Point2_gt(a_, b_) ==
    \E a \in {a_}, b \in {b_} :
        \/ num_lt(a.x, b.x)
        \/ (num_equals(a.x, b.x) /\ num_lt(a.y, b.y))
Point2_lt(a, b) == Point2_gt(b, a)

Point2_add(a_, b_) ==
    The({ Point2(num_add(a.x, b.x), num_add(a.y, b.y)) : a \in {a_}, b \in {b_} })
Point2_sub(a_, b_) ==
    The({ Point2(num_sub(a.x, b.x), num_sub(a.y, b.y)) : a \in {a_}, b \in {b_} })
Point2_scale(a_, k_) ==
    The({ Point2(num_mul(a.x, k), num_mul(a.y, k)) : a \in {a_}, k \in {k_} })

\* Vectors (differences of points).
cross(u_, v_) ==
    The({ num_sub(num_mul(u.x, v.y), num_mul(u.y, v.x)) : u \in {u_}, v \in {v_} })
dot(u_, v_) ==
    The({ num_add(num_mul(u.x, v.x), num_mul(u.y, v.y)) : u \in {u_}, v \in {v_} })

\* u.radian_to(v) is the counter-clockwise angle from u to v, in [0, 2 pi).
\* Angles are compared without being computed: radian_is_zero says the
\* angle is 0, radian_le that the angle from u to v is at most the angle
\* from u to w.
radian_is_zero(u_, v_) ==
    \E u \in {u_}, v \in {v_} :
        num_equals(cross(u, v), zero) /\ num_gt(dot(u, v), zero)
radian_below_pi(u_, v_) ==
    \E u \in {u_}, v \in {v_} :
        \E c \in {cross(u, v)} :
            \/ num_gt(c, zero)
            \/ (num_equals(c, zero) /\ num_gt(dot(u, v), zero))
radian_le(u_, v_, w_) ==
    \E u \in {u_}, v \in {v_}, w \in {w_} :
        \E below_v \in {radian_below_pi(u, v)}, below_w \in {radian_below_pi(u, w)} :
            IF below_v /= below_w THEN below_v
            ELSE ~num_lt(cross(v, w), zero)

\* ------------------------------------------------------------------------
\* Segments: LineSegment2::new, CircleSegment2::new, ArcSegment2::new
\* ------------------------------------------------------------------------
LineSegment2(source, target) ==
    [type |-> "LineSegment2", source |-> source, target |-> target]

CircleSegment2(center, radius) ==
    [type |-> "CircleSegment2", center |-> center, radius |-> radius]

\* The cosine of k pi / 12 for the k that are multiples of 2 or of 3 (the
\* multiples of pi / 6 and of pi / 4); no value for another k.
RECURSIVE cos_twelfth(_)
cos_twelfth(k_) ==
    The({ IF k > 12 THEN cos_twelfth(24 - k)
          ELSE IF k > 6 THEN num_sub(zero, cos_twelfth(12 - k))
          ELSE CASE k = 0 -> from_int(1)
                 [] k = 2 -> <<zero, half, from_int(3)>>
                 [] k = 3 -> <<zero, half, from_int(2)>>
                 [] k = 4 -> half
                 [] k = 6 -> zero :
          k \in {k_ % 24} })

\* The point of a circle at a radian that is a multiple of pi / 6 or of
\* pi / 4: center + radius (cos, sin).
arc_point(center_, radius_, radian_) ==
    The({ Point2(num_add(center.x, num_mul(radius, cos_twelfth(k))),
                 num_add(center.y, num_mul(radius, cos_twelfth(k + 18)))) :
          center \in {center_}, radius \in {radius_},
          k \in {The({ CHOOSE k \in {(12 * radian[1]) \div radian[2]} :
                           (12 * radian[1]) % radian[2] = 0 :
                       radian \in {radian_} })} })

\* An arc runs counter-clockwise from source_radian to target_radian.
ArcSegment2(circle_, source_radian_, target_radian_) ==
    The({ [type |-> "ArcSegment2",
           center |-> circle.center, radius |-> circle.radius,
           source_radian |-> source_radian, target_radian |-> target_radian,
           source |-> arc_point(circle.center, circle.radius, source_radian),
           target |-> arc_point(circle.center, circle.radius, target_radian)] :
          circle \in {circle_}, source_radian \in {source_radian_},
          target_radian \in {target_radian_} })

\* ArcSegment2::is_top: the monotone arc lies above its center, that is its
\* source radian, taken in [0, 2 pi), is below pi.
is_top(arc_) ==
    \E radian \in {arc_.source_radian} :
        ((2 * radian[1]) \div radian[2]) % 4 < 2

\* ArcSegment2::monotone: the arc cut at the multiples of pi that lie
\* strictly inside it, as x-monotone arcs in the order of the radians.
RECURSIVE monotone(_)
monotone(arc_) ==
    The({ The({ IF num_lt(cut, arc.target_radian)
                THEN <<ArcSegment2(CircleSegment2(arc.center, arc.radius),
                                   arc.source_radian, cut)>>
                     \o monotone(ArcSegment2(CircleSegment2(arc.center, arc.radius),
                                             cut, arc.target_radian))
                ELSE <<arc>> :
                cut \in {from_int((arc.source_radian[1] \div arc.source_radian[2]) + 1)} }) :
          arc \in {arc_} })

\* w lies between u and v, whichever of u and v is the smaller.
between(u_, v_, w_) ==
    \E u \in {u_}, v \in {v_}, w \in {w_} :
        \/ (~num_lt(w, u) /\ ~num_lt(v, w))
        \/ (~num_lt(w, v) /\ ~num_lt(u, w))

\* is_point_2_on_line_segment_2: the point is collinear with the endpoints
\* and lies between them (closed segment).
is_point_2_on_line_segment_2(p_, s_) ==
    \E p \in {p_}, s \in {s_} :
        /\ num_equals(cross(Point2_sub(s.target, s.source),
                            Point2_sub(p, s.source)), zero)
        /\ between(s.source.x, s.target.x, p.x)
        /\ between(s.source.y, s.target.y, p.y)

\* is_point_2_on_arc_segment_2 (locate_point_2_arc_segment_2 = On), for the
\* counter-clockwise orientation: the point is at the radius from the
\* center and either in the direction of an endpoint or inside the turn
\* from source to target; the turn of a whole circle is 2 pi.
is_point_2_on_arc_segment_2(point_, arc_segment_) ==
    \E point \in {point_}, arc_segment \in {arc_segment_} :
        \E vector \in {Point2_sub(point, arc_segment.center)},
           source \in {Point2_sub(arc_segment.source, arc_segment.center)},
           target \in {Point2_sub(arc_segment.target, arc_segment.center)} :
            /\ num_equals(dot(vector, vector),
                          num_mul(arc_segment.radius, arc_segment.radius))
            /\ \/ radian_is_zero(vector, source)
               \/ radian_is_zero(vector, target)
               \/ ~num_lt(num_sub(arc_segment.target_radian,
                                  arc_segment.source_radian),
                          num_mul(pi, from_int(2)))
               \/ radian_le(source, vector, target)

\* Containment by the type of the segment, as every match in the driver.
is_point_2_on_segment(point_, segment_) ==
    \E point \in {point_}, segment \in {segment_} :
        IF segment.type = "LineSegment2"
        THEN is_point_2_on_line_segment_2(point, segment)
        ELSE is_point_2_on_arc_segment_2(point, segment)

\* The points of a candidate list that lie on both segments.
select_on_both(points_, s_, t_) ==
    The({ SelectSeq(points,
                    LAMBDA p : is_point_2_on_segment(p, s)
                               /\ is_point_2_on_segment(p, t)) :
          points \in {points_}, s \in {s_}, t \in {t_} })

\* The point a + u r of a line.
line_point(a_, r_, u_) ==
    The({ Point2(num_add(a.x, num_mul(u, r.x)), num_add(a.y, num_mul(u, r.y))) :
          a \in {a_}, r \in {r_}, u \in {u_} })

\* The roots of qa u^2 + qb u + qc = 0, the smaller first.
quadratic_roots(qa_, qb_, disc_) ==
    The({ IF num_lt(disc, zero) THEN <<>>
          ELSE The({ IF num_equals(root, zero)
                     THEN <<num_div(num_sub(zero, qb), num_mul(from_int(2), qa))>>
                     ELSE <<num_div(num_sub(num_sub(zero, qb), root),
                                    num_mul(from_int(2), qa)),
                            num_div(num_add(num_sub(zero, qb), root),
                                    num_mul(from_int(2), qa))>> :
                     root \in {num_sqrt(disc)} }) :
          qa \in {qa_}, qb \in {qb_}, disc \in {disc_} })

\* The crossings of a line segment and an arc: the roots u of
\* |a + u r - c|^2 = radius^2 that lie on both.
line_arc_crossings(s_, t_, r_, ac_) ==
    The({ The({ The({ select_on_both([i \in 1..Len(roots) |->
                                         line_point(s.source, r, roots[i])], s, t) :
                      roots \in {quadratic_roots(qa, qb,
                                    num_sub(num_mul(qb, qb),
                                            num_mul(from_int(4), num_mul(qa, qc))))} }) :
                qa \in {dot(r, r)},
                qb \in {num_mul(from_int(2), dot(r, ac))},
                qc \in {num_sub(dot(ac, ac), num_mul(t.radius, t.radius))} }) :
          s \in {s_}, t \in {t_}, r \in {r_}, ac \in {ac_} })

line_arc_intersection(s_, t_) ==
    The({ line_arc_crossings(s, t, Point2_sub(s.target, s.source),
                             Point2_sub(s.source, t.center)) :
          s \in {s_}, t \in {t_} })

\* The two points at distance h |d| from m across the direction d.
across(m_, d_, h_) ==
    The({ IF num_equals(h, zero)
          THEN <<Point2(num_sub(m.x, num_mul(h, d.y)), num_add(m.y, num_mul(h, d.x)))>>
          ELSE <<Point2(num_sub(m.x, num_mul(h, d.y)), num_add(m.y, num_mul(h, d.x))),
                 Point2(num_add(m.x, num_mul(h, d.y)), num_sub(m.y, num_mul(h, d.x)))>> :
          m \in {m_}, d \in {d_}, h \in {h_} })

arc_arc_crossings(s_, t_, d_, dd_, k_) ==
    The({ The({ IF num_lt(hh, zero) THEN <<>>
                ELSE select_on_both(
                         across(Point2_add(s.center, Point2_scale(d, k)), d,
                                num_sqrt(hh)), s, t) :
                hh \in {num_sub(num_div(num_mul(s.radius, s.radius), dd),
                                num_mul(k, k))} }) :
          s \in {s_}, t \in {t_}, d \in {d_}, dd \in {dd_}, k \in {k_} })

\* The crossings of two arcs: none for concentric circles, else the points
\* of the radical line at the distance from both centers.
arc_arc_intersection(s_, t_) ==
    The({ The({ The({ IF num_equals(dd, zero) THEN <<>>
                      ELSE arc_arc_crossings(s, t, d, dd,
                               num_div(num_add(num_sub(num_mul(s.radius, s.radius),
                                                       num_mul(t.radius, t.radius)),
                                               dd),
                                       num_mul(from_int(2), dd))) :
                      dd \in {dot(d, d)} }) :
                d \in {Point2_sub(t.center, s.center)} }) :
          s \in {s_}, t \in {t_} })

line_line_crossing(s_, t_, r_, q_, den_) ==
    The({ IF num_equals(den, zero) THEN <<>>
          ELSE The({ IF is_point_2_on_line_segment_2(p, s)
                        /\ is_point_2_on_line_segment_2(p, t)
                     THEN <<p>> ELSE <<>> :
                     p \in {line_point(s.source, r,
                               num_div(num_sub(num_mul(num_sub(t.source.x, s.source.x), q.y),
                                               num_mul(num_sub(t.source.y, s.source.y), q.x)),
                                       den))} }) :
          s \in {s_}, t \in {t_}, r \in {r_}, q \in {q_}, den \in {den_} })

\* The crossing of two line segments: the crossing of the two supporting
\* lines when it lies on both segments; nothing for parallel segments.
line_line_intersection(s_, t_) ==
    The({ The({ line_line_crossing(s, t, r, q, cross(r, q)) :
                r \in {Point2_sub(s.target, s.source)},
                q \in {Point2_sub(t.target, t.source)} }) :
          s \in {s_}, t \in {t_} })

\* segment_2_segment_2_intersection: 0..2 points for any mix of line and arc.
segment_2_segment_2_intersection(s_, t_) ==
    The({ IF s.type = "LineSegment2"
          THEN IF t.type = "LineSegment2" THEN line_line_intersection(s, t)
               ELSE line_arc_intersection(s, t)
          ELSE IF t.type = "LineSegment2" THEN line_arc_intersection(t, s)
               ELSE arc_arc_intersection(s, t) :
          s \in {s_}, t \in {t_} })

\* ------------------------------------------------------------------------
\* Order function: calculate_segment_value and compare_segments
\* ------------------------------------------------------------------------
calculate_slope(source_, target_) ==
    The({ IF num_equals(x, zero) THEN None
          ELSE Some(num_div(num_sub(target_.y, source_.y), x)) :
          x \in {num_sub(target_.x, source_.x)} })

calculate_tangent_slope(center_, point_) ==
    The({ IF num_equals(y, zero) THEN None
          ELSE Some(num_div(num_sub(zero, num_sub(point_.x, center_.x)), y)) :
          y \in {num_sub(point_.y, center_.y)} })

\* The y of an arc at the x of the point: above or below the center,
\* whichever is on the arc, else the y of the point.
arc_value(segment_, point_, y_) ==
    The({ IF is_point_2_on_arc_segment_2(
                 Point2(point.x, num_add(segment.center.y, y)), segment)
          THEN num_add(segment.center.y, y)
          ELSE IF is_point_2_on_arc_segment_2(
                      Point2(point.x, num_sub(segment.center.y, y)), segment)
          THEN num_sub(segment.center.y, y)
          ELSE point.y :
          segment \in {segment_}, point \in {point_}, y \in {y_} })

\* Where the point is beside the circle the square root is nan: no point
\* with a nan coordinate is on the arc, and the value is the point's y.
calculate_segment_value(segment_, point_) ==
    The({ IF segment.type = "LineSegment2"
          THEN IF num_equals(segment.source.x, segment.target.x) THEN point.y
               ELSE num_add(segment.source.y,
                        num_div(num_mul(num_sub(point.x, segment.source.x),
                                        num_sub(segment.target.y, segment.source.y)),
                                num_sub(segment.target.x, segment.source.x)))
          ELSE arc_value(segment, point,
                   num_sqrt(num_sub(num_mul(segment.radius, segment.radius),
                                    num_mul(num_sub(point.x, segment.center.x),
                                            num_sub(point.x, segment.center.x))))) :
          segment \in {segment_}, point \in {point_} })

get_target_of_segment(segment_) ==
    The({ IF segment.type = "LineSegment2" THEN segment.target
          ELSE IF is_top(segment) THEN segment.source ELSE segment.target :
          segment \in {segment_} })

\* The point at which calculate_mid_value probes the two segments: halfway
\* between the event and the target it selects.
calculate_mid_point(segment_a_, segment_b_, event_point_) ==
    The({ Point2_scale(Point2_add(event_point_,
                                  IF Point2_lt(target_a, target_b)
                                  THEN target_a ELSE target_b),
                       half) :
          target_a \in {get_target_of_segment(segment_a_)},
          target_b \in {get_target_of_segment(segment_b_)} })

calculate_mid_value(segment_a_, segment_b_, event_point_) ==
    The({ <<calculate_segment_value(segment_a_, mid),
            calculate_segment_value(segment_b_, mid)>> :
          mid \in {calculate_mid_point(segment_a_, segment_b_, event_point_)} })

compare_segments_same_slope(segment_a, segment_b, event_point) ==
    The({ IF num_equals(mid[1], mid[2]) THEN "Equal"
          ELSE IF num_lt(mid[1], mid[2]) THEN "Less"
          ELSE "Greater" :
          mid \in {calculate_mid_value(segment_a, segment_b, event_point)} })

\* The slope compare_segments takes for a segment at the event point.
slope_at(segment_, event_point_) ==
    The({ IF segment.type = "LineSegment2"
          THEN calculate_slope(segment.source, segment.target)
          ELSE calculate_tangent_slope(segment.center, event_point_) :
          segment \in {segment_} })

\* Variant: among segments of equal value, one with an undefined slope is
\* ordered before one with a defined slope.
compare_segments_vertical_first(segment_a_, segment_b_, event_point_) ==
    The({ The({ IF num_equals(segment_a_value, segment_b_value)
                THEN IF is_some(segment_a_slope)
                     THEN IF is_some(segment_b_slope)
                          THEN IF num_equals(unwrap(segment_a_slope),
                                             unwrap(segment_b_slope))
                               THEN compare_segments_same_slope(segment_a, segment_b,
                                                                event_point)
                               ELSE IF num_lt(unwrap(segment_a_slope),
                                              unwrap(segment_b_slope))
                               THEN "Less"
                               ELSE "Greater"
                          ELSE "Greater"
                     ELSE IF is_some(segment_b_slope)
                          THEN "Less"
                          ELSE compare_segments_same_slope(segment_a, segment_b,
                                                           event_point)
                ELSE IF num_lt(segment_a_value, segment_b_value) THEN "Less"
                ELSE "Greater" :
                segment_a_value \in {calculate_segment_value(segment_a, event_point)},
                segment_b_value \in {calculate_segment_value(segment_b, event_point)},
                segment_a_slope \in {slope_at(segment_a, event_point)},
                segment_b_slope \in {slope_at(segment_b, event_point)} }) :
          segment_a \in {segment_a_}, segment_b \in {segment_b_},
          event_point \in {event_point_} })

compare_segments(segment_a_, segment_b_, event_point_) ==
    The({ The({ IF num_equals(segment_a_value, segment_b_value)
                THEN IF is_some(segment_a_slope)
                     THEN IF is_some(segment_b_slope)
                          THEN IF num_equals(unwrap(segment_a_slope),
                                             unwrap(segment_b_slope))
                               THEN compare_segments_same_slope(segment_a, segment_b,
                                                                event_point)
                               ELSE IF num_lt(unwrap(segment_a_slope),
                                              unwrap(segment_b_slope))
                               THEN "Less"
                               ELSE "Greater"
                          ELSE "Less"
                     ELSE IF is_some(segment_b_slope)
                          THEN "Greater"
                          ELSE compare_segments_same_slope(segment_a, segment_b,
                                                           event_point)
                ELSE IF num_lt(segment_a_value, segment_b_value) THEN "Less"
                ELSE "Greater" :
                segment_a_value \in {calculate_segment_value(segment_a, event_point)},
                segment_b_value \in {calculate_segment_value(segment_b, event_point)},
                segment_a_slope \in {slope_at(segment_a, event_point)},
                segment_b_slope \in {slope_at(segment_b, event_point)} }) :
          segment_a \in {segment_a_}, segment_b \in {segment_b_},
          event_point \in {event_point_} })

\* ------------------------------------------------------------------------
\* StatusNode: [value, point, segment], its equality and its order
\* ------------------------------------------------------------------------
StatusNode(value, point, segment) ==
    [value |-> value, point |-> point, segment |-> segment]

\* The identity test the driver repeats wherever it matches two segments.
same_segment(a_, b_) ==
    \E a \in {a_}, b \in {b_} :
        /\ a.type = b.type
        /\ a.type = "ArcSegment2" =>
               Point2_equals(a.center, b.center) /\ num_equals(a.radius, b.radius)
        /\ Point2_equals(a.source, b.source)
        /\ Point2_equals(a.target, b.target)

StatusNode_eq(self, other) == same_segment(self.segment, other.segment)

StatusNode_cmp(self_, other_) ==
    The({ IF num_equals(self.value, other.value)
          THEN IF same_segment(self.segment, other.segment) THEN "Equal"
               ELSE compare_segments(self.segment, other.segment,
                                     IF Point2_gt(self.point, other.point)
                                     THEN other.point ELSE self.point)
          ELSE IF num_lt(self.value, other.value) THEN "Less"
          ELSE "Greater" :
          self \in {self_}, other \in {other_} })

\* ------------------------------------------------------------------------
\* Vec::sort_by: the stable insertion sort the standard library runs on
\* short slices, under compare_segments at the event point.
\* ------------------------------------------------------------------------
RECURSIVE insert_tail(_, _, _)
insert_tail(sorted_, s_, event_point_) ==
    The({ IF sorted = <<>> THEN <<s>>
          ELSE IF compare_segments(s, sorted[Len(sorted)], event_point) = "Less"
               THEN Append(insert_tail(SubSeq(sorted, 1, Len(sorted) - 1), s,
                                       event_point),
                           sorted[Len(sorted)])
               ELSE Append(sorted, s) :
          sorted \in {sorted_}, s \in {s_}, event_point \in {event_point_} })

RECURSIVE sort_by(_, _)
sort_by(segs_, event_point_) ==
    The({ IF segs = <<>> THEN <<>>
          ELSE insert_tail(sort_by(SubSeq(segs, 1, Len(segs) - 1), event_point),
                           segs[Len(segs)], event_point) :
          segs \in {segs_}, event_point \in {event_point_} })

\* ------------------------------------------------------------------------
\* AVLTree<StatusNode>.  A tree is <<>> or <<left, node, right, height>>;
\* a search descends from the root by the order of StatusNode, and an
\* insertion or a deletion rebalances every node on its way back to the
\* root: a node whose subtrees differ in height by two is rotated, once
\* when the higher child leans the same way (or not at all), twice when
\* it leans the other way.
\* ------------------------------------------------------------------------
\* The options the engine's constructor gives its two trees, and the one
\* intersection() gives its local tree of event points.
status_tree_option == "SameNodeInsertRight"
\* Variant: the set of endpoints keeps equal points.
event_points_same_node == "SameNodeInsertRight"

event_points_option == "DisableSameNode"

\* Variant: the point index accepts a key it already holds.
intersection_points_same_node == "SameNodeInsertRight"

intersection_points_option == "DisableSameNode"

height(tree) == IF tree = <<>> THEN 0 ELSE tree[4]

tree_of(left_, node, right_) ==
    The({ <<left, node, right,
            1 + IF height(left) > height(right) THEN height(left)
                ELSE height(right)>> :
          left \in {left_}, right \in {right_} })

balance_factor(tree) == height(tree[1]) - height(tree[3])

rotate_right(tree_) ==
    The({ tree_of(tree[1][1], tree[1][2], tree_of(tree[1][3], tree[2], tree[3])) :
          tree \in {tree_} })

rotate_left(tree_) ==
    The({ tree_of(tree_of(tree[1], tree[2], tree[3][1]), tree[3][2], tree[3][3]) :
          tree \in {tree_} })

rebalance(tree_) ==
    The({ The({ IF factor > 1
                THEN IF balance_factor(tree[1]) >= 0 THEN rotate_right(tree)
                     ELSE rotate_right(tree_of(rotate_left(tree[1]), tree[2], tree[3]))
                ELSE IF factor < -1
                THEN IF balance_factor(tree[3]) <= 0 THEN rotate_left(tree)
                     ELSE rotate_left(tree_of(tree[1], tree[2], rotate_right(tree[3])))
                ELSE tree :
                factor \in {balance_factor(tree)} }) :
          tree \in {tree_} })

\* AVLTree::insert: with SameNodeInsertRight a node equal to one of the
\* tree goes to its right, with DisableSameNode it is rejected.
RECURSIVE AVLTree_insert(_, _, _)
AVLTree_insert(tree_, node_, option) ==
    The({ IF tree = <<>> THEN tree_of(<<>>, node, <<>>)
          ELSE The({ IF c = "Equal" /\ option = "DisableSameNode" THEN tree
                     ELSE IF c = "Less"
                     THEN rebalance(tree_of(AVLTree_insert(tree[1], node, option),
                                            tree[2], tree[3]))
                     ELSE rebalance(tree_of(tree[1], tree[2],
                                            AVLTree_insert(tree[3], node, option))) :
                     c \in {StatusNode_cmp(node, tree[2])} }) :
          tree \in {tree_}, node \in {node_} })

status_tree_insert(tree_, node_) ==
    AVLTree_insert(tree_, node_, status_tree_option)

\* The leftmost node of a tree that is not empty, and the tree without it.
RECURSIVE leftmost(_)
leftmost(tree_) ==
    The({ IF tree[1] = <<>> THEN tree[2] ELSE leftmost(tree[1]) : tree \in {tree_} })

RECURSIVE without_leftmost(_)
without_leftmost(tree_) ==
    The({ IF tree[1] = <<>> THEN tree[3]
          ELSE rebalance(tree_of(without_leftmost(tree[1]), tree[2], tree[3])) :
          tree \in {tree_} })

\* AVLTree::delete: the node the search for key reaches is removed, and a
\* node with two subtrees is replaced by the node that follows it; a
\* search that reaches no equal node leaves the tree as it is.
RECURSIVE status_tree_delete(_, _)
status_tree_delete(tree_, key_) ==
    The({ IF tree = <<>> THEN <<>>
          ELSE The({ IF c = "Less"
                     THEN rebalance(tree_of(status_tree_delete(tree[1], key),
                                            tree[2], tree[3]))
                     ELSE IF c = "Greater"
                     THEN rebalance(tree_of(tree[1], tree[2],
                                            status_tree_delete(tree[3], key)))
                     ELSE IF tree[1] = <<>> THEN tree[3]
                     ELSE IF tree[3] = <<>> THEN tree[1]
                     ELSE rebalance(tree_of(tree[1], leftmost(tree[3]),
                                            without_leftmost(tree[3]))) :
                     c \in {StatusNode_cmp(key, tree[2])} }) :
          tree \in {tree_}, key \in {key_} })

\* AVLTree::mid_order_traversal: the nodes from the least to the greatest.
RECURSIVE AVLTree_mid_order_traversal(_)
AVLTree_mid_order_traversal(tree_) ==
    The({ IF tree = <<>> THEN <<>>
          ELSE AVLTree_mid_order_traversal(tree[1]) \o <<tree[2]>>
               \o AVLTree_mid_order_traversal(tree[3]) :
          tree \in {tree_} })

\* ------------------------------------------------------------------------
\* AVLTree<Point2>, as its in-order traversal: the order of Point2 is
\* total, and the place of a point does not depend on the shape of the
\* tree.
\* ------------------------------------------------------------------------
RemoveAt(seq_, i_) ==
    The({ SubSeq(seq, 1, i - 1) \o SubSeq(seq, i + 1, Len(seq)) :
          seq \in {seq_}, i \in {i_} })
InsertAt(seq_, i_, v) ==
    The({ SubSeq(seq, 1, i - 1) \o <<v>> \o SubSeq(seq, i, Len(seq)) :
          seq \in {seq_}, i \in {i_} })

\* A tree of Point2, ascending in the order of Point2.
RECURSIVE point_insert_pos(_, _, _, _, _)
point_insert_pos(tree_, p_, lo_, hi_, option) ==
    The({ IF lo > hi THEN lo
          ELSE The({ IF Point2_equals(p, tree[mid]) /\ option = "DisableSameNode"
                     THEN 0
                     ELSE IF Point2_lt(p, tree[mid])
                     THEN point_insert_pos(tree, p, lo, mid - 1, option)
                     ELSE point_insert_pos(tree, p, mid + 1, hi, option) :
                     mid \in {(lo + hi) \div 2} }) :
          tree \in {tree_}, p \in {p_}, lo \in {lo_}, hi \in {hi_} })

point_tree_insert(tree_, p_, option) ==
    The({ The({ IF i = 0 THEN tree ELSE InsertAt(tree, i, p) :
                i \in {point_insert_pos(tree, p, 1, Len(tree), option)} }) :
          tree \in {tree_}, p \in {p_} })

\* ------------------------------------------------------------------------
\* PriorityQueue<Point2>, kept in the order it pops: greatest point first.
\* ------------------------------------------------------------------------
RECURSIVE queue_push(_, _)
queue_push(queue_, p_) ==
    The({ IF queue = <<>> THEN <<p>>
          ELSE IF Point2_gt(p, Head(queue)) THEN <<p>> \o queue
          ELSE <<Head(queue)>> \o queue_push(Tail(queue), p) :
          queue \in {queue_}, p \in {p_} })

\* ------------------------------------------------------------------------
\* The sweep driver.  While sweeping, S is the record
\* [event_queue, status_tree, intersection_points, panicked]; panicked says
\* that the handler has panicked.
\* ------------------------------------------------------------------------
segments_of(status_nodes_) ==
    The({ [i \in 1..Len(status_nodes) |-> status_nodes[i].segment] :
          status_nodes \in {status_nodes_} })

get_segment_with_source(segs_, event_point_) ==
    The({ SelectSeq(segs,
              LAMBDA segment :
                  IF segment.type = "LineSegment2"
                  THEN Point2_equals(segment.source, event_point)
                  ELSE \/ (is_top(segment)
                           /\ Point2_equals(segment.target, event_point))
                       \/ (~is_top(segment)
                           /\ Point2_equals(segment.source, event_point))) :
          segs \in {segs_}, event_point \in {event_point_} })

\* Variant: the status segments are matched on their source.
get_active_segment_with_source(tree_, target_) ==
    The({ SelectSeq(segments_of(AVLTree_mid_order_traversal(tree)),
              LAMBDA segment : Point2_equals(segment.source, target)) :
          tree \in {tree_}, target \in {target_} })

get_active_segment_with_target(tree_, target_) ==
    The({ SelectSeq(segments_of(AVLTree_mid_order_traversal(tree)),
              LAMBDA segment :
                  IF segment.type = "LineSegment2"
                  THEN Point2_equals(segment.target, target)
                  ELSE \/ (is_top(segment)
                           /\ Point2_equals(segment.source, target))
                       \/ (~is_top(segment)
                           /\ Point2_equals(segment.target, target))) :
          tree \in {tree_}, target \in {target_} })

get_active_segment_containing_point(tree_, point_) ==
    The({ SelectSeq(segments_of(AVLTree_mid_order_traversal(tree)),
              LAMBDA segment :
                  /\ ~(Point2_equals(segment.source, point)
                       \/ Point2_equals(segment.target, point))
                  /\ is_point_2_on_segment(point, segment)) :
          tree \in {tree_}, point \in {point_} })

\* The key of a deletion: the segment's value at the last event point, or
\* its source y when there has been no event.
delete_key(segment_, last_, event_point) ==
    The({ StatusNode(IF is_some(last)
                     THEN calculate_segment_value(segment, unwrap(last))
                     ELSE segment.source.y,
                     event_point, segment) :
          segment \in {segment_}, last \in {last_} })

RECURSIVE delete_segments(_, _, _, _)
delete_segments(tree_, segs_, last_, event_point_) ==
    The({ IF segs = <<>> THEN tree
          ELSE delete_segments(
                   status_tree_delete(tree, delete_key(Head(segs), last, event_point)),
                   Tail(segs), last, event_point) :
          tree \in {tree_}, segs \in {segs_}, last \in {last_},
          event_point \in {event_point_} })

\* Variant: a reinserted entry carries the y of its segment's source.
RECURSIVE reinsert_segments_at_source(_, _, _)
reinsert_segments_at_source(tree_, segs_, event_point_) ==
    The({ IF segs = <<>> THEN tree
          ELSE reinsert_segments_at_source(
                   status_tree_insert(tree,
                       StatusNode(Head(segs).source.y, event_point, Head(segs))),
                   Tail(segs), event_point) :
          tree \in {tree_}, segs \in {segs_}, event_point \in {event_point_} })

RECURSIVE reinsert_segments(_, _, _)
reinsert_segments(tree_, segs_, event_point_) ==
    The({ IF segs = <<>> THEN tree
          ELSE reinsert_segments(
                   status_tree_insert(tree,
                       StatusNode(calculate_segment_value(Head(segs), event_point),
                                  event_point, Head(segs))),
                   Tail(segs), event_point) :
          tree \in {tree_}, segs \in {segs_}, event_point \in {event_point_} })

\* Index of the first status node whose value is at or above the point.
RECURSIVE first_at_or_above(_, _, _)
first_at_or_above(status_nodes_, point_, i_) ==
    The({ IF i > Len(status_nodes) THEN 0
          ELSE IF num_equals(status_nodes[i].value, point.y)
                  \/ num_gt(status_nodes[i].value, point.y)
               THEN i
               ELSE first_at_or_above(status_nodes, point, i + 1) :
          status_nodes \in {status_nodes_}, point \in {point_}, i \in {i_} })

get_neighbors_with_point(status_nodes_, point_) ==
    The({ The({ IF index <= 1 THEN None
                ELSE Some(<<status_nodes[index - 1].segment,
                            status_nodes[index].segment>>) :
                index \in {first_at_or_above(status_nodes, point_, 1)} }) :
          status_nodes \in {status_nodes_} })

\* The first and the last of U and C in sweep order.  Indexing an empty
\* vector panics: None stands for the panic.
get_left_right_in_u_c(source_is_p, contain_p, event_point) ==
    The({ IF segs = <<>> THEN None ELSE Some(<<segs[1], segs[Len(segs)]>>) :
          segs \in {sort_by(source_is_p \o contain_p, event_point)} })

\* Index of the first node of the traversal holding the segment, 0 if none.
RECURSIVE index_of_segment(_, _, _)
index_of_segment(segment_, mid_order_traversal_, i_) ==
    The({ IF i > Len(mid_order_traversal) THEN 0
          ELSE IF same_segment(mid_order_traversal[i].segment, segment) THEN i
          ELSE index_of_segment(segment, mid_order_traversal, i + 1) :
          segment \in {segment_}, mid_order_traversal \in {mid_order_traversal_},
          i \in {i_} })

get_left_of_segment(segment_, mid_order_traversal_) ==
    The({ The({ IF index <= 1 THEN None
                ELSE Some(mid_order_traversal[index - 1].segment) :
                index \in {index_of_segment(segment_, mid_order_traversal, 1)} }) :
          mid_order_traversal \in {mid_order_traversal_} })

get_right_of_segment(segment_, mid_order_traversal_) ==
    The({ The({ IF index = 0 \/ index = Len(mid_order_traversal) THEN None
                ELSE Some(mid_order_traversal[index + 1].segment) :
                index \in {index_of_segment(segment_, mid_order_traversal, 1)} }) :
          mid_order_traversal \in {mid_order_traversal_} })

\* Variant: every point the oracle returns is scheduled.
is_anywhere(point_, event_point_) == TRUE

\* Variant: only a point to the right of the event is scheduled.
is_right_of(point_, event_point_) ==
    \E point \in {point_}, event_point \in {event_point_} :
        num_gt(point.x, event_point.x)

\* Variant: every point but the event itself is scheduled.
is_off_event(point_, event_point_) == ~Point2_equals(point_, event_point_)

\* A point of the oracle is scheduled when it lies ahead of the event.
is_ahead(point_, event_point_) ==
    \E point \in {point_}, event_point \in {event_point_} :
        \/ num_gt(point.x, event_point.x)
        \/ (num_equals(point.x, event_point.x) /\ num_gt(point.y, event_point.y))

RECURSIVE push_ahead(_, _, _)
push_ahead(queue_, points_, event_point_) ==
    The({ IF points = <<>> THEN queue
          ELSE push_ahead(IF is_ahead(Head(points), event_point)
                          THEN queue_push(queue, Head(points)) ELSE queue,
                          Tail(points), event_point) :
          queue \in {queue_}, points \in {points_}, event_point \in {event_point_} })

find_intersection_points(queue, segment_a, segment_b, event_point) ==
    push_ahead(queue, segment_2_segment_2_intersection(segment_a, segment_b),
               event_point)

\* find_intersection_points when the neighbour exists.
find_with(queue_, segment_, neighbor_, event_point_) ==
    The({ IF is_some(neighbor)
          THEN find_intersection_points(queue_, segment_, unwrap(neighbor),
                                        event_point_)
          ELSE queue_ :
          neighbor \in {neighbor_} })

\* The neighbours of the lowest and of the highest of U and C are tested.
schedule_outer(queue_, mid_order_traversal_, left_right_, event_point_) ==
    The({ find_with(
              find_with(queue_, left_right[1],
                        get_left_of_segment(left_right[1], mid_order_traversal),
                        event_point_),
              left_right[2],
              get_right_of_segment(left_right[2], mid_order_traversal),
              event_point_) :
          left_right \in {left_right_}, mid_order_traversal \in {mid_order_traversal_} })

\* The pairs of segments the scheduling part of handle_event_point hands
\* to find_intersection_points, and so to the oracle, in the order of the
\* calls.
oracle_pairs(mid_order_traversal_, source_is_p_, contain_p_, event_point_) ==
    The({ IF source_is_p_ = <<>> /\ contain_p_ = <<>>
          THEN The({ IF is_some(neighbors) THEN <<unwrap(neighbors)>> ELSE <<>> :
                     neighbors \in {get_neighbors_with_point(mid_order_traversal,
                                                             event_point_)} })
          ELSE The({ IF is_some(left_right)
                     THEN The({ (IF is_some(left) THEN <<<<unwrap(left_right)[1],
                                                          unwrap(left)>>>>
                                 ELSE <<>>)
                                \o (IF is_some(right) THEN <<<<unwrap(left_right)[2],
                                                               unwrap(right)>>>>
                                    ELSE <<>>) :
                                left \in {get_left_of_segment(unwrap(left_right)[1],
                                                              mid_order_traversal)},
                                right \in {get_right_of_segment(unwrap(left_right)[2],
                                                                mid_order_traversal)} })
                     ELSE <<>> :
                     left_right \in {get_left_right_in_u_c(source_is_p_, contain_p_,
                                                           event_point_)} }) :
          mid_order_traversal \in {mid_order_traversal_} })

\* Variant: the lowest and the highest of U and C are looked up at every
\* event, also when U and C are empty.
schedule_neighbors_always_outer(queue_, mid_order_traversal_, source_is_p_, contain_p_, event_point_) ==
    The({ IF is_some(left_right)
          THEN Some(schedule_outer(queue_, mid_order_traversal_,
                                   unwrap(left_right), event_point_))
          ELSE None :
          left_right \in {get_left_right_in_u_c(source_is_p_, contain_p_,
                                                event_point_)} })

\* The scheduling part of handle_event_point (after the status is rebuilt):
\* Some(the event queue it leaves), or None when it panics.
schedule_neighbors(queue_, mid_order_traversal_, source_is_p_, contain_p_, event_point_) ==
    The({ IF source_is_p = <<>> /\ contain_p = <<>>
          THEN The({ IF is_some(neighbors)
                     THEN Some(find_intersection_points(queue, unwrap(neighbors)[1],
                                                        unwrap(neighbors)[2],
                                                        event_point))
                     ELSE Some(queue) :
                     neighbors \in {get_neighbors_with_point(mid_order_traversal,
                                                             event_point)} })
          ELSE The({ IF is_some(left_right)
                     THEN Some(schedule_outer(queue, mid_order_traversal,
                                              unwrap(left_right), event_point))
                     ELSE None :
                     left_right \in {get_left_right_in_u_c(source_is_p, contain_p,
                                                           event_point)} }) :
          queue \in {queue_}, mid_order_traversal \in {mid_order_traversal_},
          source_is_p \in {source_is_p_}, contain_p \in {contain_p_},
          event_point \in {event_point_} })

\* The status rebuilding part of handle_event_point: delete L and C, clear
\* the tree and insert what is left together with U and C, sorted.
rebuild_status(tree_, source_is_p_, target_is_p_, contain_p_, last_, event_point_) ==
    The({ reinsert_segments(<<>>,
              sort_by(segments_of(AVLTree_mid_order_traversal(
                          delete_segments(
                              delete_segments(tree_, target_is_p_, last, event_point),
                              contain_p, last, event_point)))
                          \o source_is_p_ \o contain_p,
                      event_point),
              event_point) :
          contain_p \in {contain_p_}, last \in {last_},
          event_point \in {event_point_} })

\* handle_event_point once U, L and C are collected and not all empty.
handle_collected(S_, source_is_p_, target_is_p_, contain_p_, last_, event_point_) ==
    The({ The({ The({ [event_queue |-> IF is_some(queue) THEN unwrap(queue)
                                 ELSE S.event_queue,
                 panicked |-> ~is_some(queue),
                 status_tree |-> tree,
                 intersection_points |->
                     IF Len(source_is_p) + Len(target_is_p) + Len(contain_p) > 1
                     THEN point_tree_insert(S.intersection_points, event_point,
                                            intersection_points_option)
                     ELSE S.intersection_points] :
                queue \in {schedule_neighbors(S.event_queue,
                                              AVLTree_mid_order_traversal(tree),
                                              source_is_p, contain_p,
                                              event_point)} }) :
                tree \in {rebuild_status(S.status_tree, source_is_p, target_is_p,
                                         contain_p, last_, event_point)} }) :
          S \in {S_}, source_is_p \in {source_is_p_}, target_is_p \in {target_is_p_},
          contain_p \in {contain_p_}, event_point \in {event_point_} })

\* Variant: an event without segments is handled like any other.
handle_event_point_no_skip(S_, segs_, last_, event_point_) ==
    The({ handle_collected(S, get_segment_with_source(segs_, event_point),
                           get_active_segment_with_target(S.status_tree, event_point),
                           get_active_segment_containing_point(S.status_tree,
                                                               event_point),
                           last_, event_point) :
          S \in {S_}, event_point \in {event_point_} })

handle_event_point(S_, segs_, last_, event_point_) ==
    The({ The({ IF source_is_p = <<>> /\ target_is_p = <<>> /\ contain_p = <<>>
                THEN S
                ELSE handle_collected(S, source_is_p, target_is_p, contain_p,
                                      last_, event_point) :
                source_is_p \in {get_segment_with_source(segs_, event_point)},
                target_is_p \in {get_active_segment_with_target(S.status_tree,
                                                                event_point)},
                contain_p \in {get_active_segment_containing_point(S.status_tree,
                                                                   event_point)} }) :
          S \in {S_}, event_point \in {event_point_} })

\* Variant: the last origin segment is left out of the count.
count_containing_but_last(point_, origin_) ==
    The({ Cardinality({ i \in 1..(Len(origin) - 1) :
                            is_point_2_on_segment(point, origin[i]) }) :
          point \in {point_}, origin \in {origin_} })

\* Variant: an original arc counts once for each of its monotone pieces
\* that contains the point.
RECURSIVE count_containing_pieces(_, _)
count_containing_pieces(point_, origin_) ==
    The({ IF origin = <<>> THEN 0
          ELSE (IF Head(origin).type = "LineSegment2"
                THEN IF is_point_2_on_segment(point, Head(origin)) THEN 1 ELSE 0
                ELSE The({ Cardinality({ k \in 1..Len(pieces) :
                                            is_point_2_on_segment(point, pieces[k]) }) :
                           pieces \in {monotone(Head(origin))} }))
               + count_containing_pieces(point, Tail(origin)) :
          point \in {point_}, origin \in {origin_} })

\* The number of origin segments containing the point, counted as the
\* filter counts them.
RECURSIVE count_containing(_, _)
count_containing(point_, origin_) ==
    The({ IF origin = <<>> THEN 0
          ELSE (IF is_point_2_on_segment(point, Head(origin)) THEN 1 ELSE 0)
               + count_containing(point, Tail(origin)) :
          point \in {point_}, origin \in {origin_} })

\* Variant: the index is returned unfiltered.
filter_keep_all(origin_, points_) == points_

\* Variant: a point on a single original segment is kept too.
filter_at_least_one(origin_, points_) ==
    The({ SelectSeq(points_, LAMBDA point : count_containing(point, origin) > 0) :
          origin \in {origin_} })

filter_intersection_points(origin_, points_) ==
    The({ SelectSeq(points_, LAMBDA point : count_containing(point, origin) > 1) :
          origin \in {origin_} })

\* The deduplicated endpoints of the segments, in the order they pop.
RECURSIVE seed_event_points(_, _)
seed_event_points(event_points_, segs_) ==
    The({ IF segs = <<>> THEN event_points_
          ELSE seed_event_points(
                   point_tree_insert(
                       point_tree_insert(event_points_, Head(segs).source,
                                         event_points_option),
                       Head(segs).target, event_points_option),
                   Tail(segs)) :
          segs \in {segs_} })

RECURSIVE push_all(_, _)
push_all(queue_, points_) ==
    The({ IF points = <<>> THEN queue_
          ELSE push_all(queue_push(queue_, Head(points)), Tail(points)) :
          points \in {points_} })

\* push_segment: the entry it appends to origin_segments and the entries
\* it appends to segments, for a line, for a circle and for an arc.
origin_of(segment_) ==
    The({ CASE segment.type = "LineSegment2" ->
                 LineSegment2(segment.source, segment.target)
            [] segment.type = "CircleSegment2" ->
                 ArcSegment2(CircleSegment2(segment.center, segment.radius),
                             zero, num_mul(pi, from_int(2)))
            [] segment.type = "ArcSegment2" ->
                 ArcSegment2(CircleSegment2(segment.center, segment.radius),
                             segment.source_radian, segment.target_radian) :
          segment \in {segment_} })

\* Variant: a line is stored with the endpoint that sweeps second as source.
normalized_backwards(segment_) ==
    The({ CASE segment.type = "LineSegment2" ->
                 IF Point2_lt(segment.source, segment.target)
                 THEN <<LineSegment2(segment.source, segment.target)>>
                 ELSE <<LineSegment2(segment.target, segment.source)>>
            [] segment.type = "CircleSegment2" ->
                 <<ArcSegment2(CircleSegment2(segment.center, segment.radius),
                               zero, pi),
                   ArcSegment2(CircleSegment2(segment.center, segment.radius),
                               pi, num_mul(pi, from_int(2)))>>
            [] segment.type = "ArcSegment2" ->
                 monotone(ArcSegment2(CircleSegment2(segment.center, segment.radius),
                                      segment.source_radian, segment.target_radian)) :
          segment \in {segment_} })

\* Variant: a circle is stored in segments as one arc, not split.
normalized_whole(segment_) ==
    The({ CASE segment.type = "LineSegment2" ->
                 IF Point2_gt(segment.source, segment.target)
                 THEN <<LineSegment2(segment.source, segment.target)>>
                 ELSE <<LineSegment2(segment.target, segment.source)>>
            [] segment.type = "CircleSegment2" ->
                 <<ArcSegment2(CircleSegment2(segment.center, segment.radius),
                               zero, num_mul(pi, from_int(2)))>>
            [] segment.type = "ArcSegment2" ->
                 monotone(ArcSegment2(CircleSegment2(segment.center, segment.radius),
                                      segment.source_radian, segment.target_radian)) :
          segment \in {segment_} })

normalized(segment_) ==
    The({ CASE segment.type = "LineSegment2" ->
                 IF Point2_gt(segment.source, segment.target)
                 THEN <<LineSegment2(segment.source, segment.target)>>
                 ELSE <<LineSegment2(segment.target, segment.source)>>
            [] segment.type = "CircleSegment2" ->
                 <<ArcSegment2(CircleSegment2(segment.center, segment.radius),
                               zero, pi),
                   ArcSegment2(CircleSegment2(segment.center, segment.radius),
                               pi, num_mul(pi, from_int(2)))>>
            [] segment.type = "ArcSegment2" ->
                 monotone(ArcSegment2(CircleSegment2(segment.center, segment.radius),
                                      segment.source_radian, segment.target_radian)) :
          segment \in {segment_} })

RECURSIVE normalized_all(_)
normalized_all(pushes_) ==
    The({ IF pushes = <<>> THEN <<>>
          ELSE normalized(Head(pushes)) \o normalized_all(Tail(pushes)) :
          pushes \in {pushes_} })

RECURSIVE origin_all(_)
origin_all(pushes_) ==
    The({ IF pushes = <<>> THEN <<>>
          ELSE <<origin_of(Head(pushes))>> \o origin_all(Tail(pushes)) :
          pushes \in {pushes_} })

\* intersection() on a newly constructed engine that has been given the
\* pushes in order: seeding, the whole event loop, traversal and filter.
RECURSIVE run_event_loop(_, _, _)
run_event_loop(S_, segs_, last_) ==
    The({ IF S.event_queue = <<>> \/ S.panicked THEN S
          ELSE run_event_loop(
                   handle_event_point([S EXCEPT !.event_queue = Tail(S.event_queue)],
                                      segs, last_, Head(S.event_queue)),
                   segs, Some(Head(S.event_queue))) :
          S \in {S_}, segs \in {segs_} })

\* The argument of the push_segment call that appended an origin entry; an
\* entry with the radians 0 and 2 pi is taken for a pushed circle.
pushed_as(origin_) ==
    The({ IF origin.type = "LineSegment2" THEN origin
          ELSE IF origin.source_radian = zero
                  /\ origin.target_radian = num_mul(pi, from_int(2))
          THEN CircleSegment2(origin.center, origin.radius)
          ELSE origin :
          origin \in {origin_} })

new_engine_intersection(pushes_) ==
    The({ The({ filter_intersection_points(
                    origin_all(pushes),
                    run_event_loop(
                        [event_queue |-> push_all(<<>>, seed_event_points(<<>>, segs)),
                         status_tree |-> <<>>,
                         intersection_points |-> <<>>,
                         panicked |-> FALSE],
                        segs, None).intersection_points) :
                segs \in {normalized_all(pushes)} }) :
          pushes \in {pushes_} })

\* ------------------------------------------------------------------------
\* Inputs
\* ------------------------------------------------------------------------
\* The segments push_segment is called with: five lines (a vertical one,
\* crossings, an endpoint on two interiors, a shared endpoint, a parallel
\* pair; two of them given target first) and a whole circle to their right.
SegmentPool ==
    { LineSegment2(Pt(2, 4), Pt(2, 1)),
      LineSegment2(Pt(0, 0), Pt(4, 2)),
      LineSegment2(Pt(0, 2), Pt(4, 0)),
      LineSegment2(Pt(0, 3), Pt(4, 1)),
      LineSegment2(Pt(4, 2), Pt(0, 1)),
      CircleSegment2(Pt(6, 2), from_int(1)) }

LinePool == { segment \in SegmentPool : segment.type = "LineSegment2" }

\* The input of the test of a diagonal through a circle: the line
\* (-5,5)-(5,-5) and the circle of radius 5 about (0,0), pushed as a
\* circle or, as the test pushes it, as its upper and its lower half.  The
\* diagonal crosses the circle at (-5/sqrt(2), 5/sqrt(2)) and
\* (5/sqrt(2), -5/sqrt(2)); the line (-6,8)-(6,-8) goes through the center
\* too and crosses it at (-3,4) and (3,-4).
scenario_b_line == LineSegment2(Pt(-5, 5), Pt(5, -5))
scenario_b_circle == CircleSegment2(Pt(0, 0), from_int(5))
rational_diagonal == LineSegment2(Pt(-6, 8), Pt(6, -8))
upper_half == ArcSegment2(CircleSegment2(Pt(0, 0), from_int(5)), zero, pi)
lower_half ==
    ArcSegment2(CircleSegment2(Pt(0, 0), from_int(5)), pi, num_mul(pi, from_int(2)))

ScenarioPool ==
    { scenario_b_line, scenario_b_circle, rational_diagonal, upper_half, lower_half }

\* Most segments pushed into one engine of the scenario.
MaxScenarioSegments == 3

\* Two lines that end in the same point, (4,2), between a line below and
\* a line above them that end later, in (6,2): (4,2) is popped once as an
\* endpoint and once more as the point where the two lines meet, while the
\* outer lines are in the status.
SharedEndPool ==
    { LineSegment2(Pt(0, 0), Pt(4, 2)),
      LineSegment2(Pt(4, 2), Pt(0, 1)),
      LineSegment2(Pt(0, 5), Pt(6, 2)),
      LineSegment2(Pt(0, -1), Pt(6, 2)) }

\* Most segments pushed into one engine of lines with a shared end.
MaxSharedEndSegments == 4

\* Segments that tie in the order function: two lines on one supporting
\* line with the same first endpoint, a vertical line and a sloped line
\* that cross the longer of them, and a line that touches the circle of
\* the scenario at its top.  The lines lie to the right of the circle, and
\* the events inside the circle are at abscissas where its arcs have
\* rational values.
OrderPool ==
    { LineSegment2(Pt(6, 0), Pt(14, 4)),
      LineSegment2(Pt(6, 0), Pt(8, 1)),
      LineSegment2(Pt(10, 1), Pt(10, 3)),
      LineSegment2(Pt(8, 6), Pt(12, 2)),
      LineSegment2(Pt(-6, 5), Pt(6, 5)),
      scenario_b_circle }

\* Most segments pushed into one engine of segments that tie.
MaxOrderSegments == 3

\* The arcs the tests push next to the diagonal: an arc about (0,4) from
\* 3/2 pi to 3 pi, which is stored in two pieces, and upper halves about
\* (0,-3) and (0,0).  The arc about (0,4) touches the one about (0,-3) in
\* (0,2).
turn_and_half ==
    ArcSegment2(CircleSegment2(Pt(0, 4), from_int(2)),
                num_mul(pi, Rat(3, 2)), num_mul(pi, from_int(3)))
low_arc == ArcSegment2(CircleSegment2(Pt(0, -3), from_int(5)), zero, pi)
inner_arc == ArcSegment2(CircleSegment2(Pt(0, 0), from_int(3)), zero, pi)

ArcPool ==
    { scenario_b_line, turn_and_half, low_arc, inner_arc }

\* Most segments pushed into one engine of arcs.
MaxArcSegments == 3

\* Two circles that touch in (0,2), the small one above the large one, with
\* the diagonal through both and a horizontal line below both.
small_circle == CircleSegment2(Pt(0, 4), from_int(2))
large_circle == CircleSegment2(Pt(0, -3), from_int(5))
line_below == LineSegment2(Pt(-6, -9), Pt(6, -9))

TangentPool == { scenario_b_line, line_below, small_circle, large_circle }

\* Most segments pushed into one engine of touching circles.
MaxTangentSegments == 3

\* ------------------------------------------------------------------------
\* State machine
\* ------------------------------------------------------------------------
\* origin_segments .. last_event_point are the fields of the engine; phase
\* is the position inside intersection() ("panicked" once a call has
\* panicked, which ends the use of the engine), result the vector the last call
\* returned (None once the engine is used again), runs the number of calls
\* completed, popped the set of events the current call has popped so far
\* and repopped those of them it has popped more than once.
VARIABLES origin_segments, segments, event_queue, status_tree,
          intersection_points, last_event_point, phase, result, runs,
          popped, repopped

vars == <<origin_segments, segments, event_queue, status_tree,
          intersection_points, last_event_point, phase, result, runs,
          popped, repopped>>

\* SweepSegment2Intersection::new()
Init ==
    /\ origin_segments = <<>>
    /\ segments = <<>>
    /\ event_queue = <<>>
    /\ status_tree = <<>>
    /\ intersection_points = <<>>
    /\ last_event_point = None
    /\ phase = "idle"
    /\ result = None
    /\ runs = 0
    /\ popped = {}
    /\ repopped = {}

\* Variant: the entries of a push are put in front of the list segments.
push_segment_in_front(segment, limit) ==
    /\ phase = "idle"
    /\ Len(origin_segments) < limit
    /\ origin_segments' = Append(origin_segments, origin_of(segment))
    /\ segments' = normalized(segment) \o segments
    /\ result' = None
    /\ UNCHANGED <<event_queue, status_tree, intersection_points,
                   last_event_point, phase, runs, popped, repopped>>

push_segment(segment, limit) ==
    /\ phase = "idle"
    /\ Len(origin_segments) < limit
    /\ origin_segments' = Append(origin_segments, origin_of(segment))
    /\ segments' = segments \o normalized(segment)
    /\ result' = None
    /\ UNCHANGED <<event_queue, status_tree, intersection_points,
                   last_event_point, phase, runs, popped, repopped>>

\* Variant: the event queue is seeded only on an engine that has handled no
\* event yet.
intersection_begin_seed_once ==
    /\ phase = "idle"
    /\ runs < MaxRuns
    /\ runs > 0 => Len(origin_segments) <= MaxRerunSegments
    /\ event_queue' = IF is_some(last_event_point) THEN <<>>
                      ELSE push_all(<<>>, seed_event_points(<<>>, segments))
    /\ status_tree' = <<>>
    /\ intersection_points' = <<>>
    /\ phase' = "loop"
    /\ result' = None
    /\ popped' = {}
    /\ repopped' = {}
    /\ UNCHANGED <<origin_segments, segments, last_event_point, runs>>

\* Variant: the call forgets the event handled last by the call before.
intersection_begin_reset_last ==
    /\ phase = "idle"
    /\ runs < MaxRuns
    /\ runs > 0 => Len(origin_segments) <= MaxRerunSegments
    /\ event_queue' = push_all(<<>>, seed_event_points(<<>>, segments))
    /\ status_tree' = <<>>
    /\ intersection_points' = <<>>
    /\ last_event_point' = None
    /\ phase' = "loop"
    /\ result' = None
    /\ popped' = {}
    /\ repopped' = {}
    /\ UNCHANGED <<origin_segments, segments, runs>>

\* intersection(), up to the event loop: clear and seed.
intersection_begin ==
    /\ phase = "idle"
    /\ runs < MaxRuns
    /\ runs > 0 => Len(origin_segments) <= MaxRerunSegments
    /\ event_queue' = push_all(<<>>, seed_event_points(<<>>, segments))
    /\ status_tree' = <<>>
    /\ intersection_points' = <<>>
    /\ phase' = "loop"
    /\ result' = None
    /\ popped' = {}
    /\ repopped' = {}
    /\ UNCHANGED <<origin_segments, segments, last_event_point, runs>>

\* One iteration of the event loop.
intersection_step ==
    /\ phase = "loop"
    /\ event_queue /= <<>>
    /\ \E event_point \in {Head(event_queue)} :
       \E S \in {handle_event_point(
                     [event_queue |-> Tail(event_queue),
                      status_tree |-> status_tree,
                      intersection_points |-> intersection_points,
                      panicked |-> FALSE],
                     segments, last_event_point, event_point)} :
           /\ event_queue' = S.event_queue
           /\ status_tree' = S.status_tree
           /\ intersection_points' = S.intersection_points
           /\ last_event_point' = IF S.panicked THEN last_event_point
                                  ELSE Some(event_point)
           /\ phase' = IF S.panicked THEN "panicked" ELSE phase
           /\ popped' = popped \cup {event_point}
           /\ repopped' = IF event_point \in popped
                          THEN repopped \cup {event_point} ELSE repopped
    /\ UNCHANGED <<origin_segments, segments, result, runs>>

Reverse(seq) == [i \in 1..Len(seq) |-> seq[Len(seq) + 1 - i]]

\* Variant: the index is traversed from its last node to its first.
intersection_return_reversed ==
    /\ phase = "loop"
    /\ event_queue = <<>>
    /\ result' = Some(filter_intersection_points(origin_segments,
                                                 Reverse(intersection_points)))
    /\ phase' = "idle"
    /\ runs' = runs + 1
    /\ UNCHANGED <<origin_segments, segments, event_queue, status_tree,
                   intersection_points, last_event_point, popped, repopped>>

\* The event queue is empty: traverse the index, filter, return.
intersection_return ==
    /\ phase = "loop"
    /\ event_queue = <<>>
    /\ result' = Some(filter_intersection_points(origin_segments, intersection_points))
    /\ phase' = "idle"
    /\ runs' = runs + 1
    /\ UNCHANGED <<origin_segments, segments, event_queue, status_tree,
                   intersection_points, last_event_point, popped, repopped>>

\* Engines of up to MaxSegments segments of any kind.
Next ==
    \/ \E segment \in SegmentPool : push_segment(segment, MaxSegments)
    \/ intersection_begin
    \/ intersection_step
    \/ intersection_return

Spec == Init /\ [][Next]_vars

\* Engines of up to MaxLineSegments lines.
LineNext ==
    \/ \E segment \in LinePool : push_segment(segment, MaxLineSegments)
    \/ intersection_begin
    \/ intersection_step
    \/ intersection_return

LineSpec == Init /\ [][LineNext]_vars

\* Engines holding segments of the scenario.
ScenarioNext ==
    \/ \E segment \in ScenarioPool : push_segment(segment, MaxScenarioSegments)
    \/ intersection_begin
    \/ intersection_step
    \/ intersection_return

ScenarioSpec == Init /\ [][ScenarioNext]_vars

\* Engines holding lines of the pool with a shared end.
SharedEndNext ==
    \/ \E segment \in SharedEndPool : push_segment(segment, MaxSharedEndSegments)
    \/ intersection_begin
    \/ intersection_step
    \/ intersection_return

SharedEndSpec == Init /\ [][SharedEndNext]_vars

\* Engines holding segments that tie in the order function.
OrderNext ==
    \/ \E segment \in OrderPool : push_segment(segment, MaxOrderSegments)
    \/ intersection_begin
    \/ intersection_step
    \/ intersection_return

OrderSpec == Init /\ [][OrderNext]_vars

\* Engines holding arcs.
ArcNext ==
    \/ \E segment \in ArcPool : push_segment(segment, MaxArcSegments)
    \/ intersection_begin
    \/ intersection_step
    \/ intersection_return

ArcSpec == Init /\ [][ArcNext]_vars

\* Engines holding touching circles.
TangentNext ==
    \/ \E segment \in TangentPool : push_segment(segment, MaxTangentSegments)
    \/ intersection_begin
    \/ intersection_step
    \/ intersection_return

TangentSpec == Init /\ [][TangentNext]_vars

\* The event loop of intersection() runs until the queue is empty and then
\* returns: it is never suspended.
FairSpec ==
    Spec /\ WF_vars(intersection_step) /\ WF_vars(intersection_return)

\* ------------------------------------------------------------------------
\* Properties of intersection()
\* ------------------------------------------------------------------------
Range(seq) == { seq[i] : i \in 1..Len(seq) }

\* The nodes of the status tree, from the least to the greatest.
status_nodes == AVLTree_mid_order_traversal(status_tree)

Returned == is_some(result)

\* The push_segment calls the engine has received, in order.
pushes == [i \in 1..Len(origin_segments) |-> pushed_as(origin_segments[i])]

pushes_distinct ==
    \A i, j \in 1..Len(origin_segments) :
        i /= j => origin_segments[i] /= origin_segments[j]

origins_containing(point) ==
    { i \in 1..Len(origin_segments) :
          is_point_2_on_segment(point, origin_segments[i]) }

occurrences(points, point) ==
    { k \in 1..Len(points) : Point2_equals(points[k], point) }

endpoints(segment) == { segment.source, segment.target }

\* The points at which two original segments meet: the points the pairwise
\* oracle reports, and each endpoint of one that lies on the other.
meet_points(s, t) ==
    Range(segment_2_segment_2_intersection(s, t))
        \cup { p \in endpoints(s) : is_point_2_on_segment(p, t) }
        \cup { p \in endpoints(t) : is_point_2_on_segment(p, s) }

\* C1 (soundness): every point of the vector intersection() returns lies on
\* at least two entries of origin_segments.
Soundness ==
    Returned =>
        \A k \in 1..Len(unwrap(result)) :
            Cardinality(origins_containing(unwrap(result)[k])) >= 2

\* C1 witness: a run has returned points, and its index also held a point
\* that lies on one original segment only.
SoundnessWitness ==
    /\ Returned
    /\ unwrap(result) /= <<>>
    /\ \E k \in 1..Len(intersection_points) :
           Cardinality(origins_containing(intersection_points[k])) = 1

\* C2 (completeness, as the specification states it): when the pushed
\* segments are pairwise different, every point at which two of them meet
\* is in the vector intersection() returns.
Completeness ==
    (Returned /\ pushes_distinct) =>
        \A i, j \in 1..Len(origin_segments) :
            i < j =>
                \A p \in meet_points(origin_segments[i], origin_segments[j]) :
                    occurrences(unwrap(result), p) /= {}

\* C3 (output order, as the specification states it): the returned vector
\* is sorted by increasing x, then increasing y.
OutputAscending ==
    Returned =>
        \A k \in 1..(Len(unwrap(result)) - 1) :
            LET a == unwrap(result)[k]
                b == unwrap(result)[k + 1]
            IN  \/ num_lt(a.x, b.x)
                \/ (num_equals(a.x, b.x) /\ num_lt(a.y, b.y))

\* C3 (output order, as the code behaves): the returned vector is sorted by
\* decreasing x, then decreasing y, the reverse of the order in which the
\* event queue pops.
OutputDescending ==
    Returned =>
        \A k \in 1..(Len(unwrap(result)) - 1) :
            LET a == unwrap(result)[k]
                b == unwrap(result)[k + 1]
            IN  \/ num_gt(a.x, b.x)
                \/ (num_equals(a.x, b.x) /\ num_gt(a.y, b.y))

\* C3 witness: a returned vector of three or more points, two of them with
\* the same x.
OutputOrderWitness ==
    /\ Returned
    /\ Len(unwrap(result)) >= 3
    /\ \E k \in 1..(Len(unwrap(result)) - 1) :
           num_equals(unwrap(result)[k].x, unwrap(result)[k + 1].x)

\* C4 (distinctness): the returned vector contains no point twice.
Distinctness ==
    Returned =>
        \A k \in 1..Len(unwrap(result)) :
            Cardinality(occurrences(unwrap(result), unwrap(result)[k])) = 1

\* C4 witness: a returned point was popped as an event more than once and
\* lies on three original segments, so several pairs meet in it.
DistinctnessWitness ==
    /\ Returned
    /\ \E k \in 1..Len(unwrap(result)) :
           /\ unwrap(result)[k] \in repopped
           /\ Cardinality(origins_containing(unwrap(result)[k])) >= 3

\* C5 (endpoint inclusion): an endpoint shared by two different original
\* segments occurs exactly once in the returned vector.
EndpointInclusion ==
    Returned =>
        \A i, j \in 1..Len(origin_segments) :
            (i < j /\ origin_segments[i] /= origin_segments[j]) =>
                \A p \in endpoints(origin_segments[i])
                             \cap endpoints(origin_segments[j]) :
                    Cardinality(occurrences(unwrap(result), p)) = 1

\* C5 witness: two different original segments share an endpoint and the
\* run has returned it.
EndpointInclusionWitness ==
    /\ Returned
    /\ \E i, j \in 1..Len(origin_segments) :
           /\ origin_segments[i] /= origin_segments[j]
           /\ \E p \in endpoints(origin_segments[i])
                           \cap endpoints(origin_segments[j]) :
                  occurrences(unwrap(result), p) /= {}

no_shared_point ==
    \A i, j \in 1..Len(origin_segments) :
        i < j => meet_points(origin_segments[i], origin_segments[j]) = {}

\* C6 (vacuity): when no two original segments share a point, the returned
\* vector is empty.
Vacuity ==
    (Returned /\ no_shared_point) => unwrap(result) = <<>>

\* C6 witness: a circle (alone or beside a segment it does not touch) whose
\* two halves met in the index, and an empty returned vector.
VacuityWitness ==
    /\ Returned
    /\ no_shared_point
    /\ intersection_points /= <<>>
    /\ unwrap(result) = <<>>

\* C7 (re-initialisation): a call of intersection() on an engine that has
\* run before returns the vector a newly constructed engine returns for
\* the same pushes in the same order.
Reinitialisation ==
    (Returned /\ runs >= 2) =>
        unwrap(result) = new_engine_intersection(pushes)

\* C7 witness: the second run of an engine has returned points, with the
\* point index and last_event_point of the first run left behind.
ReinitialisationWitness ==
    /\ Returned
    /\ runs = 2
    /\ unwrap(result) /= <<>>
    /\ Len(origin_segments) >= 2

\* An order of the segments that can be pushed, by kind and coordinates.
segment_key(segment) ==
    IF segment.type = "LineSegment2"
    THEN <<zero, segment.source.x, segment.source.y,
           segment.target.x, segment.target.y>>
    ELSE <<from_int(1), segment.center.x, segment.center.y, segment.radius, zero>>

key_before(a, b) ==
    \E i \in 1..5 :
        /\ num_lt(a[i], b[i])
        /\ \A j \in 1..(i - 1) : a[j] = b[j]

\* The pushes of the engine, rearranged in that order.
pushes_in_order ==
    SortSeq(pushes, LAMBDA s, t : key_before(segment_key(s), segment_key(t)))

\* C8 (insertion-order independence): the returned set of points is the set
\* a new engine returns for the same pushes made in the order of their
\* coordinates; every order of the pushes is compared with this one order,
\* so that any two orders of the same pushes return the same set.
InsertionOrderIndependence ==
    Returned =>
        Range(new_engine_intersection(pushes_in_order)) = Range(unwrap(result))

\* C8 witness: three or more pairwise different segments, pushed in another
\* order than that of their coordinates, and a returned vector that is not
\* empty.
InsertionOrderIndependenceWitness ==
    /\ Returned
    /\ Len(origin_segments) >= 3
    /\ pushes_distinct
    /\ pushes_in_order /= pushes
    /\ unwrap(result) /= <<>>

\* C9 (termination): a running event loop reaches the empty queue and
\* intersection() returns.
Termination == (phase = "loop") ~> (phase = "idle" /\ Returned)

\* C9 witness: a run has returned after popping some point more than once
\* (the point was pushed repeatedly).
TerminationWitness ==
    /\ Returned
    /\ runs = 1
    /\ event_queue = <<>>
    /\ repopped /= {}

pushed_origin == origin_segments'[Len(origin_segments')]

\* C11 (full-circle preprocessing): a step that changes origin_segments
\* appends exactly one entry to it; when that entry is a circle, it is the
\* whole circle (radians 0 to 2 pi) and the step appends exactly two entries
\* to segments, the arcs [0, pi] and [pi, 2 pi] of its center and radius.
FullCirclePreprocessing ==
    [][ origin_segments' /= origin_segments =>
          /\ Len(origin_segments') = Len(origin_segments) + 1
          /\ pushed_origin.type = "ArcSegment2" =>
                /\ pushed_origin.source_radian = zero
                /\ pushed_origin.target_radian = num_mul(pi, from_int(2))
                /\ Len(segments') = Len(segments) + 2
                /\ \A k \in 1..2 :
                      \E arc \in {segments'[Len(segments) + k]} :
                        /\ arc.type = "ArcSegment2"
                        /\ arc.center = pushed_origin.center
                        /\ arc.radius = pushed_origin.radius
                        /\ arc.source_radian = num_mul(pi, from_int(k - 1))
                        /\ arc.target_radian = num_mul(pi, from_int(k)) ]_vars

\* C11 witness: a circle has been pushed after a line; the engine holds two
\* original segments and three normalized ones.
FullCirclePreprocessingWitness ==
    /\ Len(origin_segments) = 2
    /\ origin_segments[1].type = "LineSegment2"
    /\ origin_segments[2].type = "ArcSegment2"
    /\ Len(segments) = 3

\* seq is the beginning of longer.
is_prefix(seq, longer) ==
    /\ Len(seq) <= Len(longer)
    /\ \A i \in 1..Len(seq) : longer[i] = seq[i]

\* C12 (segment lists): every step keeps the entries of origin_segments and
\* segments in place, new entries come after them, and a step of
\* intersection() (one that starts or ends inside the call) leaves both
\* lists unchanged.
SegmentListsAppendOnly ==
    [][ /\ is_prefix(origin_segments, origin_segments')
        /\ is_prefix(segments, segments')
        /\ (phase = "loop" \/ phase' = "loop") =>
              UNCHANGED <<origin_segments, segments>> ]_vars

\* C12 witness: an engine holding three segments, a circle among them, in
\* the event loop of its second call of intersection().
SegmentListsAppendOnlyWitness ==
    /\ runs = 1
    /\ phase = "loop"
    /\ popped /= {}
    /\ Len(origin_segments) = 3
    /\ Len(segments) > Len(origin_segments)

\* ------------------------------------------------------------------------
\* A line through a whole circle
\* ------------------------------------------------------------------------
\* The engine was given the segments s and t and nothing else.
pushes_are(s, t) == pushes = <<s, t>> \/ pushes = <<t, s>>

split_points(circle) ==
    { Point2(num_add(circle.center.x, circle.radius), circle.center.y),
      Point2(num_sub(circle.center.x, circle.radius), circle.center.y) }

diagonal_crossing == num_div(from_int(5), num_sqrt(from_int(2)))

answers_its_accessors(segment) ==
    \/ /\ segment.type = "LineSegment2"
       /\ DOMAIN segment = {"type", "source", "target"}
    \/ /\ segment.type = "ArcSegment2"
       /\ DOMAIN segment = {"type", "source", "target", "center", "radius",
                            "source_radian", "target_radian"}

\* C14 (no fault): no call of intersection() has panicked, so that no first
\* or last element of an empty list of U and C has been taken (an event is
\* popped only under the loop's test that the queue is not empty); and every
\* segment the driver holds (in origin_segments, segments and the status
\* tree) is a line or an arc that answers the accessors the driver calls on
\* its kind.
NoFault ==
    /\ phase /= "panicked"
    /\ \A segment \in Range(origin_segments) \cup Range(segments)
                        \cup Range(segments_of(status_nodes)) :
          answers_its_accessors(segment)

\* C14 witness: an event with L not empty and U and C empty is being
\* handled next (a line ends there), in an engine holding lines and a circle.
NoFaultWitness ==
    /\ phase = "loop"
    /\ event_queue /= <<>>
    /\ \E i, j \in 1..Len(segments) :
          segments[i].type /= segments[j].type
    /\ get_segment_with_source(segments, Head(event_queue)) = <<>>
    /\ get_active_segment_containing_point(status_tree, Head(event_queue)) = <<>>
    /\ get_active_segment_with_target(status_tree, Head(event_queue)) /= <<>>

\* ------------------------------------------------------------------------
\* Properties of the event queue
\* ------------------------------------------------------------------------
\* The event loop is about to pop its first event.
loop_starts == phase = "loop" /\ popped = {}

\* C15 (seeding, I1): when the event loop starts, the points of the event
\* queue are the sources and targets of the entries of segments, and each
\* of them is in the queue once.
Seeding ==
    loop_starts =>
        /\ Range(event_queue) = UNION { endpoints(segments[i]) : i \in 1..Len(segments) }
        /\ \A p \in Range(event_queue) :
              Cardinality(occurrences(event_queue, p)) = 1

\* C15 witness: the loop starts on three or more segments, two of which
\* have an endpoint in common.
SeedingWitness ==
    /\ loop_starts
    /\ Len(segments) >= 3
    /\ \E i, j \in 1..Len(segments) :
          /\ i /= j
          /\ segments[i] /= segments[j]
          /\ endpoints(segments[i]) \cap endpoints(segments[j]) /= {}

\* p follows e in sweep order, as the specification puts it.
strictly_ahead(p, e) ==
    \/ num_gt(p.x, e.x)
    \/ (p.x = e.x /\ num_gt(p.y, e.y))

\* The number of times the point is in the sequence.
count_of(points, p) == Cardinality({ k \in 1..Len(points) : points[k] = p })

\* The event being handled and the queue it has been popped from.
event == Head(event_queue)
rest == Tail(event_queue)

\* C16 (scheduling guard, I3): in a step of the event loop at event e,
\* every point the queue gains lies strictly ahead of e; and for any two
\* segments, find_intersection_points at e adds to the queue each point of
\* the oracle that lies strictly ahead of e, as often as the oracle returns
\* it, and no other point.
SchedulingGuard ==
    [][ intersection_step =>
          /\ \A p \in Range(event_queue') :
                count_of(event_queue', p) > count_of(rest, p) => strictly_ahead(p, event)
          /\ \A i, j \in 1..Len(segments) :
                \E points \in {segment_2_segment_2_intersection(segments[i], segments[j])},
                   queue \in {find_intersection_points(rest, segments[i], segments[j],
                                                       event)} :
                  \A p \in Range(points) \cup Range(queue) :
                      count_of(queue, p) - count_of(rest, p) =
                          IF strictly_ahead(p, event) THEN count_of(points, p) ELSE 0
      ]_vars

\* C16 witness: at the event about to be handled two segments meet in two
\* points of its abscissa, one above the event and one not.
SchedulingGuardWitness ==
    /\ phase = "loop"
    /\ event_queue /= <<>>
    /\ \E i, j, k \in 1..Len(segments) :
          \E above \in Range(segment_2_segment_2_intersection(segments[i], segments[j])),
             other \in Range(segment_2_segment_2_intersection(segments[i], segments[k])) :
              /\ above.x = event.x /\ num_gt(above.y, event.y)
              /\ other.x = event.x /\ ~num_gt(other.y, event.y)

\* p comes before q in sweep order (x ascending, then y ascending).
precedes(p, q) ==
    \/ num_lt(p.x, q.x)
    \/ (p.x = q.x /\ num_lt(p.y, q.y))

\* C17 (monotone event order): the event a step of the loop pops is a
\* minimum of the queue in sweep order, and it precedes no event popped
\* before it in the same call.
MonotoneEventOrder ==
    [][ intersection_step =>
          /\ \A q \in Range(event_queue) : ~precedes(q, event)
          /\ \A q \in popped : ~precedes(event, q) ]_vars

\* C17 witness: a call has popped four or more different events, among
\* them a point scheduled during the sweep (one that is no endpoint), and
\* one event twice.
MonotoneEventOrderWitness ==
    /\ phase = "loop"
    /\ Cardinality(popped) >= 4
    /\ repopped /= {}
    /\ \E p \in popped :
          \A i \in 1..Len(segments) : p \notin endpoints(segments[i])

\* ------------------------------------------------------------------------
\* Properties of handle_event_point
\* ------------------------------------------------------------------------
\* The endpoint of a normalized segment the sweep meets first, and the one
\* it meets last.
upper_endpoint(segment) ==
    IF segment.type = "LineSegment2" THEN segment.source
    ELSE IF is_top(segment) THEN segment.target ELSE segment.source

lower_endpoint(segment) ==
    IF segment.type = "LineSegment2" THEN segment.target
    ELSE IF is_top(segment) THEN segment.source ELSE segment.target

\* The current call has handled the upper endpoint of the segment and not
\* its lower endpoint.
is_open(segment) ==
    upper_endpoint(segment) \in popped /\ lower_endpoint(segment) \notin popped

\* C18 as stated (status invariant, I2): when an event is popped, the status
\* tree holds exactly the normalized segments whose upper endpoint has been
\* handled and whose lower endpoint has not: each of them as often as
\* segments holds it, and no other segment.
StatusInvariant ==
    (phase = "loop" /\ event_queue /= <<>>) =>
        \A segment \in Range(segments) \cup Range(segments_of(status_nodes)) :
            count_of(segments_of(status_nodes), segment) =
                IF is_open(segment) THEN count_of(segments, segment) ELSE 0

\* U(e), L(e) and C(e) of the event about to be handled, as
\* handle_event_point collects them.
U_of_event == get_segment_with_source(segments, event)
L_of_event == get_active_segment_with_target(status_tree, event)
C_of_event == get_active_segment_containing_point(status_tree, event)

\* C19 (skipped event): a step at an event whose U, L and C are empty
\* leaves the status tree and the intersection-point index as they are and
\* the event queue as the pop has left it (nothing is scheduled, so no
\* oracle has returned a point ahead).
SkippedEvent ==
    [][ (intersection_step
         /\ U_of_event = <<>> /\ L_of_event = <<>> /\ C_of_event = <<>>) =>
          /\ status_tree' = status_tree
          /\ intersection_points' = intersection_points
          /\ event_queue' = rest ]_vars

\* C19 witness: the event about to be handled has no segment, while the
\* status tree holds two segments that meet ahead of the event and the
\* queue holds more events.
SkippedEventWitness ==
    /\ phase = "loop"
    /\ event_queue /= <<>>
    /\ U_of_event = <<>> /\ L_of_event = <<>> /\ C_of_event = <<>>
    /\ Len(status_nodes) = 2
    /\ \E p \in Range(segment_2_segment_2_intersection(status_nodes[1].segment,
                                                         status_nodes[2].segment)) :
          strictly_ahead(p, event)
    /\ rest /= <<>>

\* The number of distinct normalized segments among U, L and C: an entry
\* of segments counts once, however often the lists hold it.
distinct_at_event ==
    Cardinality({ i \in 1..Len(segments) :
                      segments[i] \in Range(U_of_event \o L_of_event \o C_of_event) })

\* C20 as stated (index insertion rule): a step at event e inserts e into
\* the intersection-point index when U, L and C hold two distinct
\* normalized segments or more, and leaves the index as it is otherwise.
IndexInsertionRule ==
    [][ intersection_step =>
          Range(intersection_points') =
              IF distinct_at_event >= 2
              THEN Range(intersection_points) \cup {event}
              ELSE Range(intersection_points) ]_vars


\* The event about to be handled has no segment: handle_event_point
\* returns at once.
skipped_event == U_of_event = <<>> /\ L_of_event = <<>> /\ C_of_event = <<>>

\* The set of segments a status tree holds.
status_segments(tree) == Range(segments_of(tree))

\* C21 as stated (status update): on an engine of pairwise distinct
\* segments a step at a non-skipped event e leaves in the status tree the
\* set (status before minus L(e)) with U(e) and C(e) added: no segment of
\* L(e) is left, every segment of U(e) is there, and every other segment
\* that was there is still there.
StatusUpdate ==
    [][ (intersection_step /\ ~skipped_event /\ pushes_distinct) =>
          /\ status_segments(status_nodes') =
                 (status_segments(status_nodes) \ Range(L_of_event))
                     \cup Range(U_of_event) \cup Range(C_of_event)
          /\ \A segment \in Range(L_of_event) :
                 segment \notin status_segments(status_nodes')
          /\ \A segment \in Range(U_of_event) :
                 segment \in status_segments(status_nodes')
          /\ \A segment \in status_segments(status_nodes) \ Range(L_of_event) :
                 segment \in status_segments(status_nodes') ]_vars

IdempotentEventHandling ==
    [][ (intersection_step /\ event \in popped) =>
          /\ segments_of(status_nodes') = segments_of(status_nodes)
          /\ intersection_points' = intersection_points ]_vars


\* C24 as stated (deletion key): in a step at event e of an engine of
\* pairwise distinct segments, for every status entry whose segment is in
\* L(e) or C(e) the key handle_event_point computes (the segment's value
\* at last_event_point) has the value the entry stores and compares Equal
\* to the entry; and the deletes remove every such entry: after the step
\* the tree holds a segment of L(e) or C(e) only as often as U(e) and C(e)
\* put it back.
DeletionKey ==
    [][ (intersection_step /\ pushes_distinct) =>
          /\ \A i \in 1..Len(status_nodes) :
                status_nodes[i].segment \in Range(L_of_event \o C_of_event) =>
                    \E key \in {delete_key(status_nodes[i].segment, last_event_point,
                                           event)} :
                        /\ key.value = status_nodes[i].value
                        /\ StatusNode_cmp(key, status_nodes[i]) = "Equal"
          /\ \A segment \in Range(L_of_event \o C_of_event) :
                count_of(segments_of(status_nodes'), segment) =
                    count_of(U_of_event \o C_of_event, segment) ]_vars

\* The positions of a status tree that hold a segment of U(e) or C(e), and
\* those whose value lies below or above the event.
u_c_positions(tree) ==
    { i \in 1..Len(tree) : tree[i].segment \in Range(U_of_event \o C_of_event) }
positions_below(tree) == { i \in 1..Len(tree) : num_lt(tree[i].value, event.y) }
positions_above(tree) == { i \in 1..Len(tree) : num_gt(tree[i].value, event.y) }
lowest_of(S) == CHOOSE m \in S : \A n \in S : m <= n
highest_of(S) == CHOOSE m \in S : \A n \in S : m >= n

\* The queue the scheduling of C25 leaves when the status tree is tree:
\* with U(e) and C(e) empty the oracle is applied to the entries right
\* below and right above e; otherwise to the lowest entry of U(e) and C(e)
\* with the entry below it and to the highest with the entry above it; a
\* side without neighbour is left out.
scheduled_as_stated(tree_) ==
    The({ IF U_of_event = <<>> /\ C_of_event = <<>>
          THEN IF positions_below(tree) /= {} /\ positions_above(tree) /= {}
               THEN find_intersection_points(
                        rest, tree[highest_of(positions_below(tree))].segment,
                        tree[lowest_of(positions_above(tree))].segment, event)
               ELSE rest
          ELSE The({ find_with(
                         find_with(rest, tree[lo].segment,
                                   IF lo > 1 THEN Some(tree[lo - 1].segment) ELSE None,
                                   event),
                         tree[hi].segment,
                         IF hi < Len(tree) THEN Some(tree[hi + 1].segment) ELSE None,
                         event) :
                     lo \in {lowest_of(u_c_positions(tree))},
                     hi \in {highest_of(u_c_positions(tree))} }) :
          tree \in {tree_} })

\* C25 as stated (neighbour scheduling): a step at a non-skipped event
\* leaves the queue that the oracle gives when it is applied to the
\* neighbours named above in the rebuilt status tree, and to no other
\* pair.
NeighbourScheduling ==
    [][ (intersection_step /\ ~skipped_event) =>
          event_queue' = scheduled_as_stated(status_nodes') ]_vars


\* ------------------------------------------------------------------------
\* Properties of the order function and of the status comparator
\* ------------------------------------------------------------------------
\* The Ordering with the two sides exchanged.
reverse_of(ordering) ==
    IF ordering = "Less" THEN "Greater"
    ELSE IF ordering = "Greater" THEN "Less"
    ELSE "Equal"

\* C26 as stated (the status comparator is a strict total order): for any
\* entries of the status tree, entries of two distinct segments never
\* compare Equal, the comparison of (b, a) is the reverse of that of
\* (a, b), Less is transitive, and two entries compare Equal exactly when
\* they denote the same segment, which is when the equality of entries
\* holds.
StrictTotalOrder ==
    \A a, b \in Range(status_nodes) :
        /\ a.segment /= b.segment => StatusNode_cmp(a, b) /= "Equal"
        /\ StatusNode_cmp(a, b) = reverse_of(StatusNode_cmp(b, a))
        /\ \A c \in Range(status_nodes) :
              (StatusNode_cmp(a, b) = "Less" /\ StatusNode_cmp(b, c) = "Less") =>
                  StatusNode_cmp(a, c) = "Less"
        /\ (StatusNode_cmp(a, b) = "Equal") <=> same_segment(a.segment, b.segment)
        /\ (StatusNode_cmp(a, b) = "Equal") <=> StatusNode_eq(a, b)


\* The tangent slope of a segment at the event e as the order function
\* defines it: the slope of the chord of a line, -(e.x - c.x)/(e.y - c.y)
\* for an arc of center c; None when it is undefined (vertical).
tangent_slope(s, e) ==
    IF s.type = "LineSegment2"
    THEN IF s.source.x = s.target.x THEN None
         ELSE Some(num_div(num_sub(s.target.y, s.source.y),
                           num_sub(s.target.x, s.source.x)))
    ELSE IF e.y = s.center.y THEN None
         ELSE Some(num_div(num_sub(zero, num_sub(e.x, s.center.x)),
                           num_sub(e.y, s.center.y)))

\* compare_segments(a, b, e) follows the chain: by value at e.x; for equal
\* values by tangent slope ascending, a defined slope before an undefined
\* one; and it is the reverse of compare_segments(b, a, e).
follows_chain(a_, b_, e_) ==
    \E a \in {a_}, b \in {b_}, e \in {e_} :
    \E va \in {calculate_segment_value(a, e)}, vb \in {calculate_segment_value(b, e)},
       ta \in {tangent_slope(a, e)}, tb \in {tangent_slope(b, e)},
       c \in {compare_segments(a, b, e)} :
        /\ num_lt(va, vb) => c = "Less"
        /\ num_gt(va, vb) => c = "Greater"
        /\ (va = vb /\ is_some(ta) /\ is_some(tb)
              /\ num_lt(unwrap(ta), unwrap(tb))) => c = "Less"
        /\ (va = vb /\ is_some(ta) /\ is_some(tb)
              /\ num_gt(unwrap(ta), unwrap(tb))) => c = "Greater"
        /\ (va = vb /\ is_some(ta) /\ ~is_some(tb)) => c = "Less"
        /\ (va = vb /\ ~is_some(ta) /\ is_some(tb)) => c = "Greater"
        /\ c = reverse_of(compare_segments(b, a, e))

\* C27 (tie-break chain of compare_segments): in a step at a non-skipped
\* event e, for any two segments the handler sorts (those of the rebuilt
\* status tree) and for any two normalized segments of the engine, the
\* comparison at e follows the chain and reverses with its arguments.
TieBreakChain ==
    [][ (intersection_step /\ ~skipped_event) =>
          \A a, b \in status_segments(status_nodes') \cup Range(segments) :
              follows_chain(a, b, event) ]_vars

\* C27 witness: the event about to be handled lies inside two segments of
\* the status tree, one with a defined and one with an undefined slope,
\* while the tree holds a segment of another value at the event.
TieBreakChainWitness ==
    /\ phase = "loop"
    /\ event_queue /= <<>>
    /\ \E a, b \in Range(C_of_event) :
          ~is_some(tangent_slope(a, event)) /\ is_some(tangent_slope(b, event))
    /\ \E i \in 1..Len(status_nodes) :
          calculate_segment_value(status_nodes[i].segment, event) /= event.y


\* Two distinct segments tie on value and on slope at the event e, so that
\* compare_segments goes on to the midpoint probe.
ties_at(a, b, e) ==
    /\ a /= b
    /\ calculate_segment_value(a, e) = calculate_segment_value(b, e)
    /\ tangent_slope(a, e) = tangent_slope(b, e)

\* The one of two points that the sweep reaches first.
first_reached(p, q) == IF precedes(q, p) THEN q ELSE p

\* The abscissa of m lies within the x-extent of the segment.
within_extent(m, segment) ==
    /\ ~num_lt(m.x, upper_endpoint(segment).x)
    /\ ~num_gt(m.x, lower_endpoint(segment).x)

\* C28 as stated (midpoint probe): in a step at a non-skipped event e, two
\* segments of the rebuilt status tree that tie on value and slope at e
\* are probed at m = (e + t)/2, where t is the one of their lower
\* endpoints that the sweep reaches first, and m lies within the x-extent
\* of both; they are ordered by their values at m.
MidpointProbe ==
    [][ (intersection_step /\ ~skipped_event) =>
          \A a, b \in status_segments(status_nodes') :
              ties_at(a, b, event) =>
                  \E m \in {calculate_mid_point(a, b, event)} :
                      /\ m = Point2_scale(
                                 Point2_add(event, first_reached(lower_endpoint(a),
                                                                 lower_endpoint(b))),
                                 half)
                      /\ within_extent(m, a) /\ within_extent(m, b)
                      /\ calculate_mid_value(a, b, event) =
                             <<calculate_segment_value(a, m),
                               calculate_segment_value(b, m)>> ]_vars


\* ------------------------------------------------------------------------
\* Properties of last_event_point
\* ------------------------------------------------------------------------
\* Every entry of the status tree was keyed at the event handled last.
keyed_at_last_event ==
    \A i \in 1..Len(status_nodes) : Some(status_nodes[i].point) = last_event_point

\* C29 as stated (no event is skipped): every event popped has a segment
\* in U, L or C, and the status entries are keyed at last_event_point.
NoEventSkipped ==
    /\ (phase = "loop" /\ event_queue /= <<>>) => ~skipped_event
    /\ phase = "loop" => keyed_at_last_event

\* C29 amended: an event without segment in U, L and C is popped only as
\* the repetition of the event handled just before it, and the status
\* entries are keyed at last_event_point throughout the loop.
SkippedOnlyWhenRepeated ==
    /\ (phase = "loop" /\ event_queue /= <<>> /\ skipped_event) =>
           (event \in popped /\ Some(event) = last_event_point)
    /\ phase = "loop" => keyed_at_last_event

\* C29 witness: an event popped before is about to be popped again with
\* no segment in U, L and C, while the status tree holds entries.
SkippedOnlyWhenRepeatedWitness ==
    /\ phase = "loop"
    /\ event_queue /= <<>>
    /\ skipped_event
    /\ event \in popped
    /\ status_nodes /= <<>>


\* C30 (a stale last_event_point is never read): intersection() leaves
\* last_event_point as the call before left it; at the first event of a
\* call L and C are empty; and whenever a step has a segment in L or C,
\* so that it computes a deletion key, last_event_point is set and is an
\* event popped in the same call: neither a point left by an earlier call
\* nor the fallback to the source y is used.
StaleLastEventNeverRead ==
    [][ /\ intersection_begin => last_event_point' = last_event_point
        /\ (intersection_step /\ popped = {}) =>
               (L_of_event = <<>> /\ C_of_event = <<>>)
        /\ (intersection_step /\ L_of_event \o C_of_event /= <<>>) =>
               (is_some(last_event_point) /\ unwrap(last_event_point) \in popped)
      ]_vars

\* C30 witness: the first event of a second call is about to be handled
\* on an engine of two segments or more, and last_event_point still holds
\* the last event of the first call, which is not the event.
StaleLastEventNeverReadWitness ==
    /\ phase = "loop"
    /\ runs = 1
    /\ popped = {}
    /\ event_queue /= <<>>
    /\ Len(segments) >= 2
    /\ is_some(last_event_point)
    /\ unwrap(last_event_point) /= event


\* ------------------------------------------------------------------------
\* Properties of the sweep as a whole
\* ------------------------------------------------------------------------
\* C31 as stated (status drained at the end): on an engine of pairwise
\* distinct segments a step at event e leaves no status segment whose
\* lower endpoint is e in the tree, and when intersection() returns the
\* event queue is empty and the status tree holds no segment, before and
\* after the return.
StatusDrained ==
    [][ /\ (intersection_step /\ pushes_distinct) =>
               \A segment \in status_segments(status_nodes) :
                   lower_endpoint(segment) = event =>
                       segment \notin status_segments(status_nodes')
        /\ (intersection_return /\ pushes_distinct) =>
               /\ event_queue = <<>> /\ status_tree = <<>>
               /\ event_queue' = <<>> /\ status_tree' = <<>> ]_vars

\* The normalized segments of the engine are pairwise distinct, and so are
\* the segments pushed.
segments_distinct ==
    /\ pushes_distinct
    /\ \A i, j \in 1..Len(segments) : i /= j => segments[i] /= segments[j]

\* C32 as stated (no duplicate status entries): on an engine of pairwise
\* distinct segments no normalized segment is in the status tree more
\* than once, at any point of intersection().
NoDuplicateStatusEntries ==
    segments_distinct =>
        \A i, j \in 1..Len(status_nodes) :
            i /= j => ~same_segment(status_nodes[i].segment, status_nodes[j].segment)


\* The pairs handed to the oracle in the step about to be taken, which
\* rebuilds the status tree into tree.
pairs_of_step(tree) == oracle_pairs(tree, U_of_event, C_of_event, event)

\* C33 as stated (oracle only on adjacent pairs): in a step at a
\* non-skipped event of an engine of pairwise distinct segments, every
\* pair handed to the oracle consists of two distinct segments that are
\* neighbours in the traversal of the rebuilt status tree.
OracleOnAdjacentPairs ==
    [][ (intersection_step /\ ~skipped_event /\ segments_distinct) =>
          \A k \in 1..Len(pairs_of_step(status_nodes')) :
              \E pair \in {pairs_of_step(status_nodes')[k]} :
                  /\ ~same_segment(pair[1], pair[2])
                  /\ \E i \in 1..(Len(status_nodes') - 1) :
                        {status_nodes'[i].segment, status_nodes'[i + 1].segment} =
                            {pair[1], pair[2]} ]_vars

====
